---- MODULE Spec2Model ----
(***************************************************************************)
(* LoanVerse-AI: the underwriting rules (src/logic.py), the negotiation    *)
(* ladder (src/agents/negotiator.py) and the conversation state machine    *)
(* (src/app.py), modelled as state machines over bounded inputs.           *)
(*                                                                         *)
(* Money is in whole rupees.  Interest rates are carried as rate x 10      *)
(* (10.5% is 105).  A DTI percentage is carried in hundredths of a percent *)
(* (50.00% is 5000), which is exactly the resolution of round(dti, 2).     *)
(* An optional value (Python None / absent key) is the empty sequence,     *)
(* a present value v is <<v>>.                                             *)
(***************************************************************************)
EXTENDS Integers, Sequences, FiniteSets, TLC

VARIABLES
    elig_in,    \* the arguments of one underwriting evaluation
    elig_out,   \* its result, None before the call
    dti_in,     \* the arguments of one affordability computation
    dti_out,    \* its result, None before the call
    session,    \* st.session_state
    reply,      \* the assistant messages the last operation added
    turn,       \* the last operation: its kind, whether it raised, and the
                \* domain the negotiator was run for in it (None if it was not)
    pre,        \* negotiation fields of the session as the last operation
                \* found them
    ladder,     \* history: the domain of the latest pushback, and the length
                \* of the current run of AMOUNT pushbacks begun at counter 0
    tiers       \* history: the tiered responses given since the session
                \* began, where they are counted

vars == <<elig_in, elig_out, dti_in, dti_out, session, reply, turn, pre, ladder,
          tiers>>

None == <<>>
Some(v) == <<v>>
IsNone(o) == o = <<>>
IsSome(o) == o # <<>>
Val(o) == o[1]

----------------------------------------------------------------------------
(* logic.py: financial calculations                                         *)

\* get_risk_based_rate: rate x 10 by credit-score bucket.
get_risk_based_rate(credit_score) ==
    IF credit_score >= 800 THEN 105
    ELSE IF credit_score >= 750 THEN 115
    ELSE IF credit_score >= 700 THEN 135
    ELSE 150

\* The annuity factor r(1+r)^n / ((1+r)^n - 1) of calculate_emi, r = rate/1200,
\* scaled by 10^9, for the tenures and rates the program uses.
AnnuityFactor(tenure_months, rate) ==
    CASE tenure_months = 12 ->
           (CASE rate = 105 -> 88148603 [] rate = 115 -> 88615054
              [] rate = 135 -> 89552027 [] OTHER -> 90258312)
      [] tenure_months = 24 ->
           (CASE rate = 105 -> 46376042 [] rate = 115 -> 46840315
              [] rate = 135 -> 47777015 [] OTHER -> 48486648)
      [] tenure_months = 36 ->
           (CASE rate = 105 -> 32502444 [] rate = 115 -> 32976006
              [] rate = 135 -> 33935287 [] OTHER -> 34665329)
      [] tenure_months = 48 ->
           (CASE rate = 105 -> 25603380 [] rate = 115 -> 26089009
              [] rate = 135 -> 27076323 [] OTHER -> 27830748)
      [] tenure_months = 60 ->
           (CASE rate = 105 -> 21493900 [] rate = 115 -> 21992607
              [] rate = 135 -> 23009846 [] OTHER -> 23789930)
      [] OTHER ->
           (CASE rate = 105 -> 16860673 [] rate = 115 -> 17386461
              [] rate = 135 -> 18464893 [] OTHER -> 19296755)

\* calculate_emi: 0 for a non-positive amount or tenure, else
\* round(amount * factor).  The product amount * factor / 10^9 is formed in
\* limbs (thousands of the amount, ten-thousands of the factor) so that every
\* intermediate value stays inside 32 bits; x is the EMI in 1/10000 rupee.
calculate_emi(amount, tenure_months, rate) ==
    IF amount <= 0 \/ tenure_months <= 0 THEN 0
    ELSE LET K   == AnnuityFactor(tenure_months, rate)
             kh  == K \div 10000
             kl  == K % 10000
             q   == amount \div 1000
             rem == amount % 1000
             x   == q * kh * 100 + (q * kl) \div 100
                    + (rem * kh) \div 10 + (rem * kl) \div 100000
         IN  (x + 5000) \div 10000

\* calculate_dti_ratio: 100.0 when there is no income, else
\* round((monthly_emi + current_emis) / monthly_salary * 100, 2).
calculate_dti_ratio(monthly_emi, current_emis, monthly_salary) ==
    IF monthly_salary <= 0 THEN 10000
    ELSE LET total_obligation == monthly_emi + current_emis
         IN  (2 * total_obligation * 10000 + monthly_salary)
                 \div (2 * monthly_salary)

----------------------------------------------------------------------------
(* logic.py: check_eligibility, "the 4 commandments"                        *)

\* The dictionary check_eligibility returns; a key the branch does not set
\* is None.
EligResult(status, type, needs, emi, tenure_months, max_eligible, dti) ==
    [status |-> status, type |-> type, needs |-> needs, emi |-> emi,
     tenure_months |-> tenure_months, max_eligible |-> max_eligible,
     dti |-> dti]

\* Variant: the score gate set at 690.
ScoreBelow690(credit_score) == credit_score < 690

\* Rule 1 gate: the minimum credit score.
ScoreBelowMinimum(credit_score) == credit_score < 700

\* Rule 2 gate: the request is within the pre-approved limit.
WithinLimit(requested_amount, pre_approved_limit) ==
    requested_amount <= pre_approved_limit

\* Variant: the hard cap set at three times the limit.
WithinTripleLimit(requested_amount, pre_approved_limit) ==
    requested_amount <= 3 * pre_approved_limit

\* Rule 3 gate: the request is within twice the pre-approved limit.
WithinHardCap(requested_amount, pre_approved_limit) ==
    requested_amount <= 2 * pre_approved_limit

\* Variant: the DTI gates computed on the 36-month EMI.
emi_for_dti_36(requested_amount, interest_rate) ==
    calculate_emi(requested_amount, 36, interest_rate)

\* The EMI the DTI gates of rules 2 and 3 are computed on (60 months).
emi_for_dti(requested_amount, interest_rate) ==
    calculate_emi(requested_amount, 60, interest_rate)

\* The EMI rules 2 and 3 report (36 months).
emi_standard(requested_amount, interest_rate) ==
    calculate_emi(requested_amount, 36, interest_rate)

\* Variant: the rule 3 check using the 60% threshold of rule 2.
SalaryDtiOver60(dti) == dti > 6000

\* Rule 2 safety check and rule 3 DTI check.
InstantDtiExceeded(dti) == dti > 6000
SalaryDtiExceeded(dti) == dti > 5000

\* check_eligibility for a profile the store holds (user found).
\* user: [score, limit, current_emis, salary]; monthly_salary is optional.
check_eligibility(user, requested_amount, monthly_salary) ==
    LET credit_score       == user.score
        pre_approved_limit == user.limit
        current_emis       == user.current_emis
        salary_on_file     == user.salary
        interest_rate      == get_risk_based_rate(credit_score)
    IN
    IF ScoreBelowMinimum(credit_score) THEN
        EligResult("REJECT", None, None, None, None, Some(0), None)
    ELSE IF WithinLimit(requested_amount, pre_approved_limit) THEN
        LET dti == calculate_dti_ratio(
                       emi_for_dti(requested_amount, interest_rate),
                       current_emis, salary_on_file)
        IN  IF InstantDtiExceeded(dti)
            THEN EligResult("REJECT", None, None, None, None, None, Some(dti))
            ELSE EligResult("APPROVE", Some("INSTANT"), None,
                     Some(emi_standard(requested_amount, interest_rate)),
                     Some(36), Some(pre_approved_limit), None)
    ELSE IF WithinHardCap(requested_amount, pre_approved_limit) THEN
        IF IsNone(monthly_salary) THEN
            EligResult("CONDITIONAL", None, Some("SALARY_SLIP"), None, None,
                       Some(2 * pre_approved_limit), None)
        ELSE
        LET emi == emi_standard(requested_amount, interest_rate)
            dti == calculate_dti_ratio(
                       emi_for_dti(requested_amount, interest_rate),
                       current_emis, Val(monthly_salary))
        IN  IF SalaryDtiExceeded(dti)
            THEN EligResult("REJECT", None, None, Some(emi), None,
                            Some(0), Some(dti))
            ELSE EligResult("APPROVE", Some("SALARY_VERIFIED"), None,
                     Some(emi), Some(36), Some(2 * pre_approved_limit),
                     Some(dti))
    ELSE
        EligResult("REJECT", None, None, None, None,
                   Some(2 * pre_approved_limit), None)

----------------------------------------------------------------------------
(* logic.py: affordability helpers used by the conversation                 *)

\* round(dti, 1) rounds the floating-point value of (total_emi / salary) *
\* 100.  Where the exact value ends in 5 hundredths the floating-point value
\* may lie below it and the result is then the lower tenth: these are the
\* <<total_emi, salary>> pairs, among the arguments tried, where it does.
RoundsDownAtTie ==
    {<<5005, 10000>>, <<14985, 10000>>, <<15485, 10000>>, <<19495, 10000>>,
     <<19505, 10000>>, <<15495, 30000>>}

\* The DTI in tenths of a percent, as round(dti, 1) gives it.
rounded_dti(total_emi, salary) ==
    IF <<total_emi, salary>> \in RoundsDownAtTie
    THEN (1000 * total_emi) \div salary
    ELSE (2 * total_emi * 1000 + salary) \div (2 * salary)

\* An affordability result that is safe at a ratio of exactly one half.
dti_safe_at_limit(salary, proposed_emi, current_emis) ==
    IF salary <= 0
    THEN [total_emi |-> proposed_emi + current_emis, dti |-> 1000,
          safe |-> FALSE]
    ELSE LET total_emi == proposed_emi + current_emis
         IN  [total_emi |-> total_emi,
              dti |-> rounded_dti(total_emi, salary),
              safe |-> 2 * total_emi <= salary]

\* calculate_dti_with_existing_loans: 'safe' is dti < 50 on the unrounded
\* ratio, and False when there is no income; 'dti' is round(dti, 1), carried
\* in tenths of a percent.
calculate_dti_with_existing_loans(salary, proposed_emi, current_emis) ==
    IF salary <= 0
    THEN [total_emi |-> proposed_emi + current_emis, dti |-> 1000,
          safe |-> FALSE]
    ELSE LET total_emi == proposed_emi + current_emis
         IN  [total_emi |-> total_emi,
              dti |-> rounded_dti(total_emi, salary),
              safe |-> 2 * total_emi < salary]

\* ((1+r)^60 - 1) / (r (1+r)^60) of calculate_safe_amount, scaled by 10^4.
InverseAnnuity60(rate) ==
    CASE rate = 105 -> 465248 [] rate = 115 -> 454698
      [] rate = 135 -> 434597 [] OTHER -> 420346

\* calculate_safe_amount at 60 months: 0 when salary * 0.5 - current_emis is
\* not positive, else that EMI times the inverse annuity factor, rounded to
\* the nearest 10000.  m2 is twice the safe EMI, y the amount in 1/10 rupee
\* divided by two.
calculate_safe_amount(salary, current_emis, rate) ==
    LET m2 == salary - 2 * current_emis
        iv == InverseAnnuity60(rate)
        y  == (m2 \div 1000) * iv + ((m2 % 1000) * iv) \div 1000
    IN  IF m2 <= 0 THEN 0
        ELSE ((y + 100000) \div 200000) * 10000

\* A validation that offers the limit itself above twice the limit.
validate_amount_single_limit(user_profile, requested_amount) ==
    LET limit        == user_profile.limit
        salary       == user_profile.salary
        current_emis == user_profile.current_emis
        rate         == get_risk_based_rate(user_profile.score)
    IN
    IF requested_amount <= limit THEN
        [status |-> "INSTANT_APPROVE", alternative_amount |-> None]
    ELSE IF requested_amount <= limit * 2 THEN
        LET proposed_emi == calculate_emi(requested_amount, 36, rate)
            safe_amount_60 == calculate_safe_amount(salary, current_emis, rate)
        IN  IF 2 * proposed_emi <= salary - 2 * current_emis
            THEN [status |-> "CONDITIONAL", alternative_amount |-> None]
            ELSE IF safe_amount_60 < requested_amount
            THEN [status |-> "OVER_CAPACITY",
                  alternative_amount |-> Some(safe_amount_60)]
            ELSE [status |-> "CONDITIONAL", alternative_amount |-> None]
    ELSE
        [status |-> "EXCEED_LIMIT", alternative_amount |-> Some(limit)]

\* validate_amount_request: status and, where the branch sets it, the
\* alternative amount.
validate_amount_request(user_profile, requested_amount) ==
    LET limit        == user_profile.limit
        salary       == user_profile.salary
        current_emis == user_profile.current_emis
        rate         == get_risk_based_rate(user_profile.score)
    IN
    IF requested_amount <= limit THEN
        [status |-> "INSTANT_APPROVE", alternative_amount |-> None]
    ELSE IF requested_amount <= limit * 2 THEN
        LET proposed_emi == calculate_emi(requested_amount, 36, rate)
            safe_amount_60 == calculate_safe_amount(salary, current_emis, rate)
        IN  IF 2 * proposed_emi <= salary - 2 * current_emis
            THEN [status |-> "CONDITIONAL", alternative_amount |-> None]
            ELSE IF safe_amount_60 < requested_amount
            THEN [status |-> "OVER_CAPACITY",
                  alternative_amount |-> Some(safe_amount_60)]
            ELSE [status |-> "CONDITIONAL", alternative_amount |-> None]
    ELSE
        [status |-> "EXCEED_LIMIT", alternative_amount |-> Some(limit * 2)]

\* generate_goldilocks_options: the three plans are a function of the amount
\* and the rate (salary and existing EMIs come from the profile); the plan
\* set is carried as that pair and a plan is computed from it on demand.
generate_goldilocks_options(amount, rate) == [amount |-> amount, rate |-> rate]

\* The tenure of plan 1, 2, 3 (aggressive, balanced, relaxed).
plan_tenure(choice) ==
    CASE choice = 1 -> 24 [] choice = 2 -> 36 [] OTHER -> 60

\* One plan of a plan set: its tenure and EMI.
goldilocks_plan(opts, choice) ==
    [tenure |-> plan_tenure(choice),
     emi |-> calculate_emi(opts.amount, plan_tenure(choice), opts.rate)]

\* calculate_safe_tenure(...) is 0 or above 84 exactly when no tenure up to
\* 84 months brings the EMI within salary * 0.5 - current_emis: the safe EMI
\* is not positive, or the monthly interest alone reaches it, or the exact
\* 84-month EMI exceeds it.  e84 is the 84-month EMI in 1/100 rupee, i10 the
\* monthly interest amount * rate / 1200 in 1/10 rupee.
NoSafeTenure(amount, salary, current_emis, rate) ==
    LET m2  == salary - 2 * current_emis
        K   == AnnuityFactor(84, rate)
        e84 == (amount \div 1000) * (K \div 10000)
               + ((amount % 1000) * (K \div 10000)) \div 1000
        i10 == ((amount \div 100) * rate) \div 12
    IN  \/ m2 <= 0
        \/ 2 * i10 >= 10 * m2
        \/ 2 * e84 > 100 * m2

----------------------------------------------------------------------------
(* The customer store, the word lists of the handlers and the messages      *)
(* a user can type                                                          *)

\* The profiles get_user can return (the store itself, data/customers.json,
\* is read at run time); names, phones, scores and limits are those of the
\* test personas, salaries and existing EMIs those of the documented
\* scenarios.
Profiles ==
    {[name |-> "Ravi Kumar", phone |-> "9876543210", score |-> 780,
      limit |-> 500000, salary |-> 75000, current_emis |-> 0],
     [name |-> "Pooja Agarwal", phone |-> "9278901234", score |-> 705,
      limit |-> 200000, salary |-> 30000, current_emis |-> 15000],
     [name |-> "Amit Verma", phone |-> "9812345678", score |-> 650,
      limit |-> 400000, salary |-> 60000, current_emis |-> 5000]}

\* A store in which every phone number has a profile.
get_user_any(phone) == Some(CHOOSE p \in Profiles : TRUE)

\* get_user: the profile stored under a normalized phone number, if any.
get_user(phone) ==
    IF \E p \in Profiles : p.phone = phone
    THEN Some(CHOOSE p \in Profiles : p.phone = phone)
    ELSE None

\* The pairs (name given in the opening, registered name) for which
\* "provided in registered or registered in provided" holds, lower-cased.
LooseNameMatches ==
    {<<"Pooja", "Pooja Agarwal">>, <<"Ravi", "Ravi Kumar">>}

handoff_keywords ==
    {"human", "agent", "real person", "customer care", "talk to a person",
     "executive"}

affirmative_new_customer ==
    {"yes", "yeah", "yep", "true", "correct", "i am"}

affirmative_mismatch ==
    {"yes", "sure", "okay", "ok", "proceed", "go ahead", "yep", "yeah",
     "fine", "do it", "accept", "continue"}

explore_top ==
    {"explore", "alternative", "other option", "other path",
     "different path", "different option", "something else", "other ways",
     "what else", "what are my options"}

accept_words ==
    {"yes", "ok", "okay", "sure", "fine", "proceed", "accept", "go ahead",
     "continue", "option", "let", "agreed", "deal", "confirm",
     "sounds good", "alright", "done"}

affirmative_confirmed ==
    {"yes", "sure", "okay", "ok", "proceed", "go ahead", "yep", "yeah",
     "fine", "do it", "confirm", "accept"}

explore_keywords ==
    {"explore", "other", "different", "alternatives", "options",
     "lower amount", "something else", "reconsider", "change", "reduce",
     "less", "smaller"}

affirmative_renegotiation ==
    {"yes", "sure", "okay", "ok", "proceed", "go ahead", "yep", "yeah",
     "fine", "do it", "accept"}

rate_keywords ==
    {"rate", "interest", "high", "expensive", "lower", "reduce", "discount",
     "less", "cheaper"}

explore_phrases ==
    {"explore", "alternative", "other option", "other path",
     "different path", "different option", "something else", "other ways",
     "what else", "what are my options"}

rejection_words ==
    {"no", "nope", "don't", "dont", "not", "reject", "refuse", "decline",
     "disagree"}

full_phrases ==
    {"all at once", "all in one", "all of it", "the whole", "full amount",
     "the full", "the entire", "entire amount", "whole thing",
     "everything at once", "lump sum"}

affirm ==
    {"confirm", "yes", "correct", "proceed", "yep", "yeah", "sure", "ok",
     "okay", "it is", "that's right"}

rate_keywords_slip ==
    {"rate", "interest", "high", "expensive", "lower", "reduce", "discount",
     "less", "cheaper"}

affirmative_confirmation ==
    {"yes", "confirm", "proceed", "approve", "go ahead", "sure", "okay",
     "ok", "yep", "yeah", "generate"}

negative ==
    {"no", "wait", "stop", "back", "cancel", "change"}

pure_accept ==
    {"accept", "agreed", "alright", "confirm", "done", "fine", "go ahead",
     "great", "ok", "okay", "proceed", "sounds good", "sure", "yeah", "yep",
     "yes"}

challenge_words ==
    {"why", "how", "can", "could", "please", "need", "want", "reduce",
     "lower", "not", "don't", "too", "is it", "what", "better", "less",
     "more", "high", "much"}

RATE_SIGNALS ==
    {"rate", "interest", "percent", "too high", "expensive", "costly",
     "reduce rate", "lower rate", "better rate", "discount", "cheap",
     "less interest", "better deal", "other bank", "competitor",
     "market rate", "rbi rate"}

AMOUNT_SIGNALS ==
    {"more money", "need more", "want more", "full amount",
     "complete amount", "not enough", "increase", "raise", "higher amount",
     "can you give more", "not fair", "why limit", "why 6", "why so less",
     "too low", "maximum", "max out", "stretch", "full 8", "full 7",
     "full 10", "entire amount", "whole amount", "reconsider",
     "reviewed again"}

EMI_SIGNALS ==
    {"emi", "monthly", "installment", "instalment", "payment", "per month",
     "afford", "burden", "too much", "reduce emi", "lower emi", "small emi",
     "less emi", "stretch tenure", "more months", "longer period", "extend",
     "flexible", "can i pay less", "smaller payment"}

PATH1_SIGNALS ==
    {"path 1", "path1", "salary slip", "salary", "upload", "payslip",
     "income proof", "slip verification", "verify income", "first path",
     "first option", "option 1", "option a"}

PATH2_SIGNALS ==
    {"path 2", "path2", "co-borrower", "coborrower", "co borrower", "joint",
     "add someone", "spouse", "parent", "sibling", "guarantor",
     "second path", "second option", "option 2", "option b"}

PATH3_SIGNALS ==
    {"path 3", "path3", "split", "two products", "separate", "partial",
     "half now", "proceed with", "approved amount", "go ahead with",
     "third path", "third option", "option 3", "option c"}

coercion_flags ==
    {"my husband", "my wife", "forcing me", "help someone else",
     "commission", "my boss", "someone else", "for my friend", "making me",
     "told me to"}

fraud_flags ==
    {"fake", "forge", "forged", "fabricate", "false salary",
     "false document", "edit the pdf", "edit pdf", "edit document",
     "fake pan", "fake id"}

bribery_flags ==
    {"pay you extra", "bribe", "extra money for you", "i'll pay you",
     "give you something", "reward you", "tip you", "pay extra",
     "money for approval", "commission for you", "extra for approval"}

crypto_words ==
    {"bitcoin", "crypto", "usdt", "eth", "btc"}

disbursement_words ==
    {"when", "disburs", "credit", "transfer"}

document_words ==
    {"document", "doc", "paper", "submit", "need"}

emi_words ==
    {"emi", "payment", "debit", "auto"}

purpose_map ==
    <<<<"wedding",
        {"wedding", "shaadi", "marriage", "vivah", "bride", "groom"}>>,
      <<"education",
        {"education", "college", "university", "course", "degree",
         "studies", "fees", "school", "tuition"}>>,
      <<"medical",
        {"medical", "hospital", "health", "surgery", "treatment", "doctor",
         "medicine", "operation"}>>,
      <<"home renovation",
        {"renovation", "home improvement", "repair", "construction",
         "interior", "remodel", "furnish"}>>,
      <<"travel",
        {"travel", "trip", "vacation", "holiday", "tour", "abroad"}>>,
      <<"business",
        {"business", "startup", "shop", "store", "enterprise", "venture"}>>,
      <<"vehicle",
        {"car", "bike", "vehicle", "scooter", "two-wheeler", "four-wheeler"}>>,
      <<"personal",
        {"personal", "emergency", "expenses"}>>>>

\* A typed message, as the extractors see it: the words of the handlers'
\* lists it contains (kw), extract_amount_from_input (amount), the name and
\* the purpose words the opening and purpose handlers would take from it,
\* whether it holds a digit, is at most three characters long, is one of
\* the pure acceptances, extract_option_from_input, extract_tenure_from_input,
\* whether it matches the option-selection pattern, the letter of a
\* "path a/b/c" prefix, normalize_phone when that has ten digits or more,
\* and the age of an "N years old" phrase (-1 without one).
Utter(text, kw, amount, name, words, has_digit, short, pure, option, tenure, option_pick, path_letter, age) ==
    [text |-> text, kw |-> kw, amount |-> amount, name |-> name,
     words |-> words, has_digit |-> has_digit, short |-> short,
     pure |-> pure, option |-> option, tenure |-> tenure,
     option_pick |-> option_pick, path_letter |-> path_letter, phone |-> "",
     age |-> age]

\* A message that is a phone number; outside Verification it is not typed
\* (as an amount it is above every limit, like "12 lakh").
PhoneUtter(text, phone) ==
    [text |-> text, kw |-> {}, amount |-> 0, name |-> "", words |-> "",
     has_digit |-> TRUE, short |-> FALSE, pure |-> FALSE, option |-> 0,
     tenure |-> 0, option_pick |-> FALSE, path_letter |-> "", phone |-> phone,
     age |-> -1]

\* str(amount), the message _execute_successful_phase_3 passes on.
AmountUtter(amount) ==
    [text |-> "amount", kw |-> {}, amount |-> amount, name |-> "",
     words |-> "", has_digit |-> TRUE, short |-> amount < 1000,
     pure |-> FALSE, option |-> IF amount \in {1, 2, 3} THEN amount ELSE 0,
     tenure |-> 0, option_pick |-> FALSE, path_letter |-> "", phone |-> "",
     age |-> -1]

PhoneUtterances ==
    {PhoneUtter("9876543210", "9876543210"),
     PhoneUtter("9278901234", "9278901234"),
     PhoneUtter("+91 92789 01234", "9278901234"),
     PhoneUtter("9812345678", "9812345678"),
     PhoneUtter("9999999999", "9999999999")}

ChatUtterances == {
    Utter("hi",
        {},
        0, "", "Hi", FALSE, TRUE, FALSE, 0, 0, FALSE, "", -1),
    Utter("ravi",
        {},
        0, "Ravi", "Ravi", FALSE, FALSE, FALSE, 0, 0, FALSE, "", -1),
    Utter("pooja",
        {},
        0, "Pooja", "Pooja", FALSE, FALSE, FALSE, 0, 0, FALSE, "", -1),
    Utter("i am ravi i need 8 lakh",
        {"i am", "need"},
        800000, "Ravi", "Am Ravi", TRUE, FALSE, FALSE, 0, 0, FALSE, "", -1),
    Utter("wedding",
        {"wedding"},
        0, "", "Wedding", FALSE, FALSE, FALSE, 0, 0, FALSE, "", -1),
    Utter("gadgets",
        {},
        0, "Gadgets", "Gadgets", FALSE, FALSE, FALSE, 0, 0, FALSE, "", -1),
    Utter("i need a loan",
        {"need"},
        0, "", "", FALSE, FALSE, FALSE, 0, 0, FALSE, "", -1),
    Utter("2 lakh",
        {},
        200000, "", "", TRUE, FALSE, FALSE, 2, 0, FALSE, "", -1),
    Utter("4 lakh",
        {},
        400000, "", "", TRUE, FALSE, FALSE, 0, 0, FALSE, "", -1),
    Utter("8 lakh",
        {},
        800000, "", "", TRUE, FALSE, FALSE, 0, 0, FALSE, "", -1),
    Utter("12 lakh",
        {},
        1200000, "", "", TRUE, FALSE, FALSE, 0, 0, FALSE, "", -1),
    Utter("yes",
        {"yes"},
        0, "Yes", "Yes", FALSE, TRUE, TRUE, 0, 0, FALSE, "", -1),
    Utter("no",
        {"no"},
        0, "No", "No", FALSE, TRUE, FALSE, 0, 0, FALSE, "", -1),
    Utter("ok",
        {"ok"},
        0, "Ok", "Ok", FALSE, TRUE, TRUE, 0, 0, FALSE, "", -1),
    Utter("hmm",
        {},
        0, "Hmm", "Hmm", FALSE, TRUE, FALSE, 0, 0, FALSE, "", -1),
    Utter("path a",
        {},
        0, "Path", "Path", FALSE, FALSE, FALSE, 0, 0, FALSE, "a", -1),
    Utter("path b",
        {},
        0, "Path B", "Path B", FALSE, FALSE, FALSE, 0, 0, FALSE, "b", -1),
    Utter("path c",
        {},
        0, "Path C", "Path C", FALSE, FALSE, FALSE, 0, 0, FALSE, "c", -1),
    Utter("path 1",
        {"path 1"},
        1, "Path", "Path", TRUE, FALSE, FALSE, 1, 0, FALSE, "", -1),
    Utter("path 2",
        {"path 2"},
        2, "Path", "Path", TRUE, FALSE, FALSE, 2, 0, FALSE, "", -1),
    Utter("path 3",
        {"path 3"},
        3, "Path", "Path", TRUE, FALSE, FALSE, 3, 0, FALSE, "", -1),
    Utter("explore other options",
        {"explore", "option", "options", "other", "other option"},
        0, "Explore Other", "Explore Other Options", FALSE, FALSE, FALSE, 0, 0, FALSE, "", -1),
    Utter("why is the rate so high",
        {"high", "rate", "why"},
        0, "Why Rate", "Why Is The Rate So High", FALSE, FALSE, FALSE, 0, 0, FALSE, "", -1),
    Utter("i need more money",
        {"more", "more money", "need", "need more"},
        0, "More Money", "More Money", FALSE, FALSE, FALSE, 0, 0, FALSE, "", -1),
    Utter("i need more money 12 lakh",
        {"more", "more money", "need", "need more"},
        1200000, "More Money", "More Money", TRUE, FALSE, FALSE, 0, 0, FALSE, "", -1),
    Utter("emi is too much",
        {"emi", "much", "too", "too much"},
        0, "Emi Too", "Emi Is Too Much", FALSE, FALSE, FALSE, 0, 0, FALSE, "", -1),
    Utter("yes but the rate is high",
        {"high", "rate", "yes"},
        0, "Yes But", "Yes But The Rate Is High", FALSE, FALSE, FALSE, 0, 0, FALSE, "", -1),
    Utter("i want the full amount",
        {"full amount", "the full", "want"},
        0, "Full Amount", "The Full Amount", FALSE, FALSE, FALSE, 0, 0, FALSE, "", -1),
    Utter("option 1",
        {"option", "option 1"},
        1, "Option", "Option", TRUE, FALSE, FALSE, 1, 0, TRUE, "", -1),
    Utter("option 2",
        {"option", "option 2"},
        2, "Option", "Option", TRUE, FALSE, FALSE, 2, 0, TRUE, "", -1),
    Utter("option 3",
        {"option", "option 3"},
        3, "Option", "Option", TRUE, FALSE, FALSE, 3, 0, TRUE, "", -1),
    Utter("48 months",
        {},
        48, "Months", "Months", TRUE, FALSE, FALSE, 0, 48, FALSE, "", -1),
    Utter("12 months",
        {},
        12, "Months", "Months", TRUE, FALSE, FALSE, 0, 12, FALSE, "", -1),
    Utter("confirm",
        {"confirm"},
        0, "Confirm", "Confirm", FALSE, FALSE, TRUE, 0, 0, FALSE, "", -1),
    Utter("talk to a human",
        {"human"},
        0, "Talk To", "Talk To Human", FALSE, FALSE, FALSE, 0, 0, FALSE, "", -1),
    Utter("can i pay in bitcoin",
        {"bitcoin", "can"},
        0, "Can Pay", "Can Pay In Bitcoin", FALSE, FALSE, FALSE, 0, 0, FALSE, "", -1),
    Utter("i am 17 years old",
        {"i am"},
        17, "Years Old", "Am Years Old", TRUE, FALSE, FALSE, 0, 204, FALSE, "", 17),
    Utter("emi",
        {"emi"},
        0, "Emi", "Emi", FALSE, TRUE, FALSE, 0, 0, FALSE, "", -1),
    Utter("interest rate",
        {"interest", "rate"},
        0, "Interest Rate", "Interest Rate", FALSE, FALSE, FALSE, 0, 0, FALSE, "", -1)}

----------------------------------------------------------------------------
(* app.py / negotiator.py: what the handlers read off a message             *)

\* any(w in message for w in words)
Has(u, words) == u.kw \cap words # {}

\* detect_handoff_trigger
detect_handoff_trigger(u) == Has(u, handoff_keywords)

\* detect_loan_purpose: the first label of purpose_map one of whose keywords
\* the message contains.
detect_loan_purpose(u) ==
    LET hits == {i \in 1..Len(purpose_map) : Has(u, purpose_map[i][2])}
    IN  IF hits = {} THEN "Not specified"
        ELSE purpose_map[CHOOSE i \in hits : \A j \in hits : i <= j][1]

\* The intent detection without the test for a challenge word.
detect_intent_by_signal_only(u) ==
    IF u.pure \/ u.short THEN None
    ELSE IF Has(u, EMI_SIGNALS \ {"more", "maximum", "raise"}) THEN Some("EMI")
    ELSE IF Has(u, RATE_SIGNALS) THEN Some("RATE")
    ELSE IF Has(u, AMOUNT_SIGNALS) THEN Some("AMOUNT")
    ELSE None

\* NegotiatorAgent.detect_negotiation_intent: no intent for a pure acceptance
\* or a message of at most three characters, nor without a challenge word;
\* then EMI before RATE before AMOUNT.  (The exclusion of 'more', 'maximum'
\* and 'raise' from the EMI signals removes nothing: none is an EMI signal.)
detect_negotiation_intent(u) ==
    IF u.pure \/ u.short THEN None
    ELSE IF ~Has(u, challenge_words) THEN None
    ELSE IF Has(u, EMI_SIGNALS \ {"more", "maximum", "raise"}) THEN Some("EMI")
    ELSE IF Has(u, RATE_SIGNALS) THEN Some("RATE")
    ELSE IF Has(u, AMOUNT_SIGNALS) THEN Some("AMOUNT")
    ELSE None

\* NegotiatorAgent.detect_path_selection
detect_path_selection(u) ==
    IF Has(u, PATH1_SIGNALS) THEN Some("PATH_1")
    ELSE IF Has(u, PATH2_SIGNALS) THEN Some("PATH_2")
    ELSE IF Has(u, PATH3_SIGNALS) THEN Some("PATH_3")
    ELSE None

\* MasterAgent.enforce_compliance: the alert a message draws, if any:
\* coercion, then fraud, then bribery, then cryptocurrency, then an age
\* below 18.
enforce_compliance(u) ==
    IF Has(u, coercion_flags) THEN Some("compliance_coercion")
    ELSE IF Has(u, fraud_flags) THEN Some("compliance_fraud")
    ELSE IF Has(u, bribery_flags) THEN Some("compliance_bribery")
    ELSE IF Has(u, crypto_words) THEN Some("policy_crypto")
    ELSE IF u.age # -1 /\ u.age < 18 THEN Some("eligibility_age")
    ELSE None

----------------------------------------------------------------------------
(* app.py: the session state and the assistant's messages                   *)

\* initialize_session_state: the keys of st.session_state the handlers read
\* or write.  user_name, prefilled_loan_purpose, safe_max_amount,
\* awaiting_renegotiation(_confirmed), the pending_* flags, loan_type,
\* approved_emi and sanction_letter_bytes are absent until first written;
\* an absent flag reads as False.  started says the chat has a message
\* (the landing page is shown until then).
InitSession ==
    [started                          |-> FALSE,
     conversation_phase               |-> 1,
     user_name                        |-> None,
     prefilled_loan_purpose           |-> None,
     loan_purpose                     |-> None,
     requested_amount                 |-> None,
     loan_amount                      |-> 100000,
     interest_rate                    |-> None,
     user_data                        |-> None,
     pending_new_customer_query       |-> FALSE,
     pending_identity_mismatch        |-> FALSE,
     mismatch_user_data               |-> None,
     goldilocks_options               |-> None,
     safe_max_amount                  |-> None,
     awaiting_renegotiation           |-> FALSE,
     awaiting_renegotiation_confirmed |-> FALSE,
     negotiation_attempts             |-> 0,
     negotiation_active               |-> FALSE,
     negotiation_domain               |-> None,
     human_handoff                    |-> FALSE,
     awaiting_salary_slip             |-> FALSE,
     salary_slip_verified             |-> FALSE,
     awaiting_slip_confirm            |-> FALSE,
     selected_option                  |-> None,
     selected_tenure                  |-> 36,
     approved_emi                     |-> None,
     loan_type                        |-> None,
     sanction_letter                  |-> FALSE]

\* add_message("assistant", ...): a message is carried as its kind; a tier
\* response of the negotiator also carries its domain and tier (1..3).
Msg(kind) == [kind |-> kind, domain |-> "", tier |-> 0]
TierMsg(domain, tier) == [kind |-> "tier", domain |-> domain, tier |-> tier]

\* The outcome of a handler: the session it leaves, the messages it added,
\* and whether it ended in an unhandled exception (the writes made before
\* the exception stay in the session).
Done(s, msgs) ==
    [s |-> s, reply |-> msgs, fault |-> FALSE, negotiated |-> None]
Raised(s, msgs) ==
    [s |-> s, reply |-> msgs, fault |-> TRUE, negotiated |-> None]

\* The outcome of a turn in which the negotiator ran, with the domain it was
\* run for.
Negotiated(outcome, domain) == [outcome EXCEPT !.negotiated = Some(domain)]

\* st.session_state.get(key, default) for a key that may be absent.
GetOr(o, default) == IF IsNone(o) THEN default ELSE Val(o)

----------------------------------------------------------------------------
(* negotiator.py: the ladder                                                *)

\* Variant: escalation only above three attempts.
EscalationAbove3(attempt) == attempt > 3

\* "if attempt >= 3": the pushback goes to the human handoff.
EscalationDue(attempt) == attempt >= 3

\* NegotiatorAgent.negotiate dispatch: RATE, AMOUNT, anything else is EMI.
negotiate_domain(intent) ==
    IF intent = "RATE" THEN "RATE"
    ELSE IF intent = "AMOUNT" THEN "AMOUNT"
    ELSE "EMI"

\* Variant: every attempt answered with the first tier.
tier_always_first(attempt) == 1

\* The tier branch negotiate takes for an attempt: 0 -> tier 1, 1 -> tier 2,
\* anything else -> tier 3.
tier_of(attempt) ==
    IF attempt = 0 THEN 1 ELSE IF attempt = 1 THEN 2 ELSE 3

\* NegotiatorAgent.negotiate(intent, context, attempt).  _tier_amount raises
\* TypeError in each tier when 'requested' is None (requested / 36, min(None,
\* ...)); _tier_rate and _tier_emi format 'approved', which the callers
\* always set, and divide by a salary the profiles keep positive.
\* The result is the message, or None when the call raises.
negotiate(intent, requested, attempt) ==
    IF negotiate_domain(intent) = "AMOUNT" /\ IsNone(requested)
    THEN None
    ELSE Some(TierMsg(negotiate_domain(intent), tier_of(attempt)))

\* NegotiatorAgent.handle_path_selection: the action code; every path
\* formats or computes with 'requested' and raises TypeError when it is None.
handle_path_selection(path, requested) ==
    IF IsNone(requested) THEN None
    ELSE IF path = "PATH_1" THEN Some("SALARY_SLIP")
    ELSE IF path = "PATH_2" THEN Some("CO_BORROWER")
    ELSE Some("SPLIT_LOAN")

----------------------------------------------------------------------------
(* app.py: handle_phase_4_needs_analysis                                    *)
(* A part of the handler that may end the turn yields Some(outcome), or     *)
(* None when the handler goes on to its next part.                          *)

\* Lines 904-987: the Path A / B / C and "explore" interceptor.
phase4_top_paths(s, u) ==
    LET ud         == Val(s.user_data)
        is_path_a  == u.path_letter = "a"
        is_path_b  == u.path_letter = "b"
        is_path_c  == u.path_letter = "c"
        is_explore == Has(u, explore_top) /\ ~u.has_digit
    IN
    IF IsNone(s.user_data) THEN None
    ELSE IF is_path_a \/ is_explore THEN
        Some(Done([s EXCEPT !.awaiting_renegotiation = TRUE],
                  IF is_explore /\ ~is_path_a THEN <<Msg("path_menu")>>
                  ELSE <<Msg("path_a")>>))
    ELSE IF is_path_b THEN
        Some(Done([s EXCEPT !.awaiting_renegotiation = FALSE],
                  IF ud.current_emis > 0 THEN <<Msg("path_b_consolidation")>>
                  ELSE <<Msg("path_b_score_plan")>>))
    ELSE IF is_path_c THEN
        Some(Done([s EXCEPT !.awaiting_renegotiation = FALSE],
                  <<Msg("path_c")>>))
    ELSE None

\* "st.session_state.get('interest_rate') or 13.5"
rate_or_default(s) == GetOr(s.interest_rate, 135)

\* Lines 1018-1019: a chosen path closes the negotiation and resets the
\* attempt counter.
path_reset(s) ==
    [s EXCEPT !.negotiation_active = FALSE, !.negotiation_attempts = 0]

\* Lines 999-1062: a "Path 1/2/3" selection while a negotiation is active.
phase4_path_selection(s, u) ==
    LET ud        == Val(s.user_data)
        path_sel  == detect_path_selection(u)
        requested == s.requested_amount
        approved  == GetOr(s.safe_max_amount, ud.limit)
        action    == handle_path_selection(Val(path_sel), requested)
        s1        == path_reset(s)
    IN
    IF ~s.negotiation_active \/ IsNone(path_sel) THEN None
    ELSE IF IsNone(action) THEN Some(Raised(s, <<>>))
    ELSE IF Val(action) = "SALARY_SLIP" THEN
        Some(Done([s1 EXCEPT
                     !.goldilocks_options = Some(generate_goldilocks_options(
                                                Val(requested), rate_or_default(s))),
                     !.awaiting_salary_slip = TRUE,
                     !.conversation_phase = 5],
                  <<Msg("path_salary_slip")>>))
    ELSE IF Val(action) = "CO_BORROWER" THEN
        Some(Done([s1 EXCEPT !.awaiting_renegotiation = TRUE,
                             !.safe_max_amount = Some(approved)],
                  <<Msg("path_co_borrower")>>))
    ELSE IF approved >= 10000 THEN
        LET rate_l == get_risk_based_rate(ud.score)
        IN  Some(Done([s1 EXCEPT
                         !.interest_rate = Some(rate_l),
                         !.requested_amount = Some(approved),
                         !.loan_amount = approved,
                         !.goldilocks_options =
                             Some(generate_goldilocks_options(approved, rate_l)),
                         !.conversation_phase = 5],
                      <<Msg("path_split_loan"), Msg("goldilocks")>>))
    ELSE Some(Done(s1, <<Msg("path_split_loan")>>))

\* Lines 1068-1083: an acceptance word, or a plausible amount without a
\* negotiation intent, closes an active negotiation; the handler goes on.
acceptance_guard(s, u) ==
    IF s.negotiation_active
       /\ (Has(u, accept_words)
           \/ (u.amount >= 10000 /\ IsNone(detect_negotiation_intent(u))))
    THEN [s EXCEPT !.negotiation_active = FALSE]
    ELSE s

\* Variant: an AMOUNT pushback fires whether or not a negotiation is active.
negotiator_fires_on_first_amount(s, u) ==
    LET intent    == detect_negotiation_intent(u)
        is_active == s.negotiation_active
        rate_pushback   == /\ intent = Some("RATE")
                           /\ ~s.awaiting_renegotiation_confirmed
                           /\ ~s.awaiting_renegotiation
        amount_pushback == /\ intent = Some("AMOUNT")
                           /\ ~s.awaiting_renegotiation_confirmed
                           /\ ~s.awaiting_renegotiation
        refire          == /\ is_active /\ IsSome(intent)
                           /\ ~s.awaiting_renegotiation
    IN  rate_pushback \/ amount_pushback \/ refire

\* Lines 1091-1099: the firing rules, on the session the guard left.
negotiator_fires(s, u) ==
    LET intent    == detect_negotiation_intent(u)
        is_active == s.negotiation_active
        rate_pushback   == /\ intent = Some("RATE")
                           /\ ~s.awaiting_renegotiation_confirmed
                           /\ ~s.awaiting_renegotiation
        amount_pushback == /\ intent = Some("AMOUNT") /\ is_active
                           /\ ~s.awaiting_renegotiation_confirmed
                           /\ ~s.awaiting_renegotiation
        refire          == /\ is_active /\ IsSome(intent)
                           /\ ~s.awaiting_renegotiation
    IN  rate_pushback \/ amount_pushback \/ refire

\* Variant: the hand-off leaves the negotiation marked active.
escalate_keeps_active(s) ==
    Done([s EXCEPT !.human_handoff = TRUE], <<Msg("escalate_to_human")>>)

\* Lines 1104-1109, 1329-1333, 1513-1518: the fourth pushback.
escalate(s) ==
    Done([s EXCEPT !.negotiation_active = FALSE, !.human_handoff = TRUE],
         <<Msg("escalate_to_human")>>)

\* Lines 1100-1130: the negotiator answers in Needs Analysis.
phase4_negotiate(s, u) ==
    LET intent  == detect_negotiation_intent(u)
        attempt == s.negotiation_attempts
        s1      == [s EXCEPT !.negotiation_active = TRUE]
        active_intent ==
            IF IsSome(intent) THEN Val(intent)
            ELSE IF IsSome(s.negotiation_domain) THEN Val(s.negotiation_domain)
            ELSE "AMOUNT"
        s2      == IF IsSome(intent)
                   THEN [s1 EXCEPT !.negotiation_domain = intent]
                   ELSE s1
        msg     == negotiate(active_intent, s.requested_amount, attempt)
    IN
    Negotiated(
        IF EscalationDue(attempt) THEN escalate(s1)
        ELSE IF IsNone(msg) THEN Raised(s2, <<>>)
        ELSE Done([s2 EXCEPT !.negotiation_attempts = attempt + 1],
                  <<Val(msg)>>),
        negotiate_domain(active_intent))

\* Lines 1354-1414: the amount check and the affordability validation, with
\* the messages msgs the handler has already added.
phase4_validate(s, amount, msgs) ==
    IF amount < 10000 THEN Done(s, msgs \o <<Msg("ask_amount_again")>>)
    ELSE
    LET ud   == Val(s.user_data)
        validation_res == validate_amount_request(ud, amount)
        rate == get_risk_based_rate(ud.score)
        proposed_emi == calculate_emi(amount, 36, rate)
        dti_res == calculate_dti_with_existing_loans(ud.salary, proposed_emi,
                                                     ud.current_emis)
        s1 == [s EXCEPT !.requested_amount = Some(amount),
                        !.loan_amount = amount,
                        !.loan_type = Some(validation_res.status),
                        !.interest_rate = Some(rate)]
        opts == Some(generate_goldilocks_options(amount, rate))
        m1 == msgs \o <<Msg("needs_analysis")>>
    IN
    IF validation_res.status = "CONDITIONAL" THEN
        Done([s1 EXCEPT !.awaiting_salary_slip = TRUE,
                        !.conversation_phase = 5,
                        !.negotiation_active = FALSE,
                        !.goldilocks_options = opts],
             m1 \o <<Msg("salary_verification_required")>>)
    ELSE IF dti_res.safe \/ validation_res.status = "INSTANT_APPROVE" THEN
        Done([s1 EXCEPT !.conversation_phase = 5,
                        !.negotiation_active = FALSE,
                        !.goldilocks_options = opts],
             m1 \o <<Msg("goldilocks")>>)
    ELSE
        Done([s1 EXCEPT !.awaiting_renegotiation = TRUE,
                        !.safe_max_amount =
                            Some(GetOr(validation_res.alternative_amount, 0))],
             m1)

\* Lines 1134-1166: the reply to the rate explanation that followed an
\* accepted counter-offer.
phase4_renegotiation_confirmed(s, u) ==
    IF Has(u, explore_keywords) THEN
        Done([s EXCEPT !.awaiting_renegotiation_confirmed = FALSE,
                       !.awaiting_renegotiation = TRUE],
             <<Msg("explore_amounts")>>)
    ELSE IF Has(u, affirmative_confirmed) THEN
        phase4_validate([s EXCEPT !.awaiting_renegotiation_confirmed = FALSE],
                        GetOr(s.safe_max_amount, 100000), <<>>)
    ELSE Done(s, <<Msg("clarify_locked_amount")>>)

\* Lines 1322-1348: a new amount above the safe maximum goes to the AMOUNT
\* ladder instead of the validation.
phase4_amount_ladder(s, amount) ==
    LET attempt == s.negotiation_attempts
        s1 == [s EXCEPT !.negotiation_active = TRUE,
                        !.awaiting_renegotiation = FALSE]
        msg == negotiate("AMOUNT", Some(amount), attempt)
    IN  Negotiated(
            IF EscalationDue(attempt) THEN escalate(s1)
            ELSE Done([s1 EXCEPT !.negotiation_attempts = attempt + 1],
                      <<Val(msg)>>),
            "AMOUNT")

\* Lines 1168-1350: the reply to a counter-offer (awaiting_renegotiation).
phase4_renegotiation(s, u) ==
    LET ud == Val(s.user_data)
        accepted_amount == GetOr(s.safe_max_amount, 100000)
        is_explore == Has(u, explore_phrases)
        wants_full == Has(u, full_phrases)
        amount   == IF wants_full THEN GetOr(s.requested_amount, 0)
                    ELSE u.amount
        safe_max == GetOr(s.safe_max_amount, 0)
    IN
    IF Has(u, affirmative_renegotiation) THEN
        IF Has(u, rate_keywords) THEN
            Done([s EXCEPT !.awaiting_renegotiation = FALSE,
                           !.requested_amount = Some(accepted_amount),
                           !.loan_amount = accepted_amount,
                           !.awaiting_renegotiation_confirmed = TRUE],
                 <<Msg("amount_locked_rate_explained")>>)
        ELSE phase4_validate([s EXCEPT !.awaiting_renegotiation = FALSE],
                             accepted_amount, <<Msg("amount_updated")>>)
    ELSE IF is_explore \/ u.path_letter = "a" THEN
        Done(s, IF is_explore /\ u.path_letter # "a"
                THEN <<Msg("path_menu")>> ELSE <<Msg("path_a")>>)
    ELSE IF u.path_letter = "b" THEN
        Done([s EXCEPT !.awaiting_renegotiation = FALSE],
             IF ud.current_emis > 0 THEN <<Msg("path_b_consolidation")>>
             ELSE <<Msg("path_b_score_plan")>>)
    ELSE IF u.path_letter = "c" THEN
        Done([s EXCEPT !.awaiting_renegotiation = FALSE], <<Msg("path_c")>>)
    ELSE IF Has(u, rejection_words) /\ ~u.has_digit THEN
        Done(s, <<Msg("counter_offer_recap")>>)
    ELSE IF amount > 0 /\ safe_max > 0 /\ amount > safe_max THEN
        phase4_amount_ladder(s, amount)
    ELSE phase4_validate([s EXCEPT !.awaiting_renegotiation = FALSE],
                         amount, <<>>)

\* handle_phase_4_needs_analysis
handle_phase_4_needs_analysis(s, u) ==
    LET top  == phase4_top_paths(s, u)
        path == phase4_path_selection(s, u)
        s1   == acceptance_guard(s, u)
    IN
    IF IsSome(top) THEN Val(top)
    ELSE IF IsSome(s.user_data) /\ IsSome(path) THEN Val(path)
    ELSE IF IsSome(s.user_data) /\ negotiator_fires(s1, u)
        THEN phase4_negotiate(s1, u)
    ELSE LET s2 == IF IsSome(s.user_data) THEN s1 ELSE s
         IN  IF s2.awaiting_renegotiation_confirmed
                 THEN phase4_renegotiation_confirmed(s2, u)
             ELSE IF s2.awaiting_renegotiation
                 THEN phase4_renegotiation(s2, u)
             ELSE phase4_validate(s2, u.amount, <<>>)

----------------------------------------------------------------------------
(* app.py: the opening, purpose discovery and verification handlers         *)

\* str.title() of the purposes the quick-action buttons pre-fill.
title(purpose) ==
    CASE purpose = "wedding" -> "Wedding"
      [] purpose = "home renovation" -> "Home Renovation"
      [] OTHER -> purpose

\* handle_phase_1_warm_opening
handle_phase_1_warm_opening(s, u) ==
    LET s1 == IF u.amount > 0
              THEN [s EXCEPT !.requested_amount = Some(u.amount)] ELSE s
        s2 == IF IsNone(s1.user_name)
              THEN [s1 EXCEPT !.user_name = Some(u.name)] ELSE s1
        prefilled == s.prefilled_loan_purpose
    IN
    IF u.name = "" /\ IsNone(s.user_name) THEN
        Done(s1, IF u.amount > 0 THEN <<Msg("ask_name_noting_amount")>>
                 ELSE <<Msg("ask_name")>>)
    ELSE IF IsSome(prefilled) THEN
        Done([s2 EXCEPT !.prefilled_loan_purpose = None,
                        !.loan_purpose = Some(title(Val(prefilled))),
                        !.conversation_phase = 3],
             <<Msg("ask_phone")>>)
    ELSE
        Done([s2 EXCEPT !.conversation_phase = 2], <<Msg("ask_purpose")>>)

\* handle_phase_2_purpose_discovery
handle_phase_2_purpose_discovery(s, u) ==
    LET s1 == IF u.amount > 0
              THEN [s EXCEPT !.requested_amount = Some(u.amount)] ELSE s
        detected == detect_loan_purpose(u)
        purpose == IF detected = "Not specified" THEN u.words ELSE detected
    IN
    IF detected = "Not specified" /\ u.words = "" THEN
        Done(s1, IF u.amount > 0 THEN <<Msg("ask_purpose_noting_amount")>>
                 ELSE <<Msg("ask_purpose_again")>>)
    ELSE
        Done([s1 EXCEPT !.loan_purpose = Some(purpose),
                        !.conversation_phase = 3],
             <<Msg("ask_phone")>>)

\* Variant: the profile is presented and the amount asked in every case.
execute_phase_3_asking_amount(s, user_data) ==
    Done([s EXCEPT !.user_data = Some(user_data), !.conversation_phase = 4],
         <<Msg("profile_ask_amount")>>)

\* _execute_successful_phase_3: the profile is taken into the session and
\* Needs Analysis starts; an amount mentioned earlier is run through
\* handle_phase_4_needs_analysis(str(amount)) in the same turn.
execute_successful_phase_3(s, user_data) ==
    LET s1 == [s EXCEPT !.user_data = Some(user_data),
                        !.conversation_phase = 4]
        amt == GetOr(s.requested_amount, 0)
        r4  == handle_phase_4_needs_analysis(s1, AmountUtter(amt))
    IN  IF amt # 0
        THEN [r4 EXCEPT !.reply = <<Msg("profile_running_check")>> \o r4.reply]
        ELSE Done(s1, <<Msg("profile_ask_amount")>>)

\* A verification that never compares the names.
identity_unchecked(s, user_data) == FALSE

\* The loose name check of line 884: a name was given and neither name
\* contains the other.
identity_mismatch(s, user_data) ==
    /\ IsSome(s.user_name)
    /\ Val(s.user_name) # ""
    /\ <<Val(s.user_name), user_data.name>> \notin LooseNameMatches

\* handle_phase_3_verification
handle_phase_3_verification(s, u) ==
    LET user_data == get_user(u.phone)
    IN
    IF s.pending_new_customer_query THEN
        Done([s EXCEPT !.pending_new_customer_query = FALSE],
             IF Has(u, affirmative_new_customer)
             THEN <<Msg("existing_customers_only")>>
             ELSE <<Msg("ask_correct_number")>>)
    ELSE IF s.pending_identity_mismatch THEN
        IF Has(u, affirmative_mismatch) THEN
            execute_successful_phase_3(
                [s EXCEPT !.pending_identity_mismatch = FALSE,
                          !.user_name = Some(Val(s.mismatch_user_data).name)],
                Val(s.mismatch_user_data))
        ELSE Done([s EXCEPT !.pending_identity_mismatch = FALSE],
                  <<Msg("profile_not_used")>>)
    ELSE IF u.phone = "" THEN Done(s, <<Msg("phone_not_recognized")>>)
    ELSE IF IsNone(user_data) THEN
        Done([s EXCEPT !.pending_new_customer_query = TRUE],
             <<Msg("profile_not_found")>>)
    ELSE IF identity_mismatch(s, Val(user_data)) THEN
        Done([s EXCEPT !.pending_identity_mismatch = TRUE,
                       !.mismatch_user_data = user_data],
             <<Msg("identity_check")>>)
    ELSE execute_successful_phase_3(s, Val(user_data))

----------------------------------------------------------------------------
(* app.py: options, confirmation, documentation and the salary-slip upload   *)

\* UnderwritingAgent.evaluate on a verified slip and the messages that
\* follow it (lines 1450-1472 and 2633-2668, the same code in both places).
\* A session without a requested amount or a rate makes the call raise.
slip_underwriting(s, msgs) ==
    LET ud == Val(s.user_data)
        decision == check_eligibility(ud, Val(s.requested_amount),
                                      Some(ud.salary))
    IN  IF IsNone(s.requested_amount) THEN Raised(s, msgs)
        ELSE IF decision.status = "APPROVE" THEN
            IF IsNone(s.interest_rate) THEN Raised(s, msgs)
            ELSE Done(s, msgs \o <<Msg("salary_slip_verified"),
                                   Msg("goldilocks")>>)
        ELSE Done(s, msgs \o <<Msg("salary_verification_failed")>>)

\* The slip confirmation gate of Phase 5.
phase5_slip_confirm(s, u) ==
    IF Has(u, affirm) THEN
        slip_underwriting([s EXCEPT !.awaiting_slip_confirm = FALSE,
                                    !.salary_slip_verified = TRUE,
                                    !.awaiting_salary_slip = FALSE],
                          <<Msg("slip_override_ack")>>)
    ELSE Done([s EXCEPT !.awaiting_slip_confirm = FALSE,
                        !.awaiting_salary_slip = TRUE,
                        !.salary_slip_verified = FALSE],
              <<Msg("reupload_slip")>>)

\* An interception that does not look at the slip waits.
phase5_negotiator_ungated(s, u) ==
    /\ IsSome(s.user_data)
    /\ IsSome(detect_negotiation_intent(u))
    /\ ~u.option_pick

\* The negotiator interception of Phase 5 fires on a fresh intent that is
\* not an option selection, outside the slip waits.
phase5_negotiator_fires(s, u) ==
    /\ IsSome(s.user_data)
    /\ ~s.awaiting_salary_slip
    /\ ~s.awaiting_slip_confirm
    /\ IsSome(detect_negotiation_intent(u))
    /\ ~u.option_pick

phase5_negotiate(s, u) ==
    LET intent  == Val(detect_negotiation_intent(u))
        attempt == s.negotiation_attempts
        s1      == [s EXCEPT !.negotiation_active = TRUE]
        active_intent == IF intent \in {"RATE", "EMI"} THEN intent ELSE "EMI"
        msg     == negotiate(active_intent, s.requested_amount, attempt)
    IN
    Negotiated(
        IF EscalationDue(attempt) THEN escalate(s1)
        ELSE IF IsNone(msg) THEN Raised(s1, <<>>)
        ELSE Done([s1 EXCEPT !.negotiation_attempts = attempt + 1],
                  <<Val(msg)>>),
        active_intent)

\* Variant: a custom tenure accepted without the DTI check.
phase5_custom_tenure_unchecked(s, custom_tenure) ==
    LET proposed_emi == calculate_emi(s.loan_amount, custom_tenure,
                                      Val(s.interest_rate))
    IN  IF IsNone(s.interest_rate) THEN Raised(s, <<>>)
        ELSE Done([s EXCEPT !.selected_option = Some("Custom"),
                            !.selected_tenure = custom_tenure,
                            !.approved_emi = Some(proposed_emi),
                            !.conversation_phase = 6],
                  <<Msg("custom_plan")>>)

\* A custom tenure in months, checked against the 50% DTI limit.
phase5_custom_tenure(s, custom_tenure) ==
    LET ud     == Val(s.user_data)
        amount == s.loan_amount
        rate   == Val(s.interest_rate)
        proposed_emi == calculate_emi(amount, custom_tenure, rate)
        dti_res == calculate_dti_with_existing_loans(ud.salary, proposed_emi,
                                                     ud.current_emis)
    IN
    IF IsNone(s.interest_rate) THEN Raised(s, <<>>)
    ELSE IF dti_res.safe THEN
        Done([s EXCEPT !.selected_option = Some("Custom"),
                       !.selected_tenure = custom_tenure,
                       !.approved_emi = Some(proposed_emi),
                       !.conversation_phase = 6],
             <<Msg("custom_plan")>>)
    ELSE IF NoSafeTenure(amount, ud.salary, ud.current_emis, rate)
        THEN Done(s, <<Msg("tenure_unaffordable")>>)
    ELSE Done(s, <<Msg("tenure_counter_offer")>>)

\* The name of a chosen plan number as it is kept in selected_option.
option_name(choice) ==
    CASE choice = 1 -> "1" [] choice = 2 -> "2" [] OTHER -> "3"

\* handle_phase_5_options_presentation
handle_phase_5_options_presentation(s, u) ==
    IF s.awaiting_slip_confirm THEN phase5_slip_confirm(s, u)
    ELSE IF phase5_negotiator_fires(s, u) THEN phase5_negotiate(s, u)
    ELSE IF s.awaiting_salary_slip /\ ~s.salary_slip_verified THEN
        Done(s, IF Has(u, rate_keywords_slip)
                THEN <<Msg("rate_explained_upload_pending")>>
                ELSE <<Msg("waiting_for_slip")>>)
    ELSE IF u.option = 0 THEN
        IF u.tenure > 0 THEN phase5_custom_tenure(s, u.tenure)
        ELSE Done(s, <<Msg("selection_not_caught")>>)
    ELSE IF IsNone(s.goldilocks_options) THEN Raised(s, <<>>)
    ELSE
        LET selected_plan == goldilocks_plan(Val(s.goldilocks_options),
                                             u.option)
        IN  Done([s EXCEPT !.selected_option = Some(option_name(u.option)),
                           !.selected_tenure = selected_plan.tenure,
                           !.approved_emi = Some(selected_plan.emi),
                           !.conversation_phase = 6],
                 <<Msg("confirmation")>>)

\* A confirmation that takes every reply that is not negative as a yes.
confirmation_unless_negative(s, u) ==
    IF ~Has(u, negative) THEN
        Done([s EXCEPT !.conversation_phase = 7, !.sanction_letter = TRUE],
             <<Msg("generating_sanction_letter"), Msg("sanction_success")>>)
    ELSE Done([s EXCEPT !.conversation_phase = 5],
              <<Msg("options_again"), Msg("goldilocks")>>)

\* Variant: a negative reply in Confirmation reopens Needs Analysis.
confirmation_back_to_needs(s, u) ==
    IF Has(u, affirmative_confirmation) THEN
        Done([s EXCEPT !.conversation_phase = 7, !.sanction_letter = TRUE],
             <<Msg("generating_sanction_letter"), Msg("sanction_success")>>)
    ELSE IF Has(u, negative) THEN
        Done([s EXCEPT !.conversation_phase = 4],
             <<Msg("options_again"), Msg("goldilocks")>>)
    ELSE Done(s, <<Msg("ask_confirmation")>>)

\* handle_phase_6_confirmation
handle_phase_6_confirmation(s, u) ==
    IF Has(u, affirmative_confirmation) THEN
        Done([s EXCEPT !.conversation_phase = 7, !.sanction_letter = TRUE],
             <<Msg("generating_sanction_letter"), Msg("sanction_success")>>)
    ELSE IF Has(u, negative) THEN
        Done([s EXCEPT !.conversation_phase = 5],
             <<Msg("options_again"), Msg("goldilocks")>>)
    ELSE Done(s, <<Msg("ask_confirmation")>>)

\* A documentation phase that reopens the options on a question about EMIs.
documentation_reopens(s, u) ==
    IF Has(u, emi_words)
    THEN Done([s EXCEPT !.conversation_phase = 5], <<Msg("emi_details")>>)
    ELSE Done(s, <<Msg("loan_approved")>>)

\* handle_phase_7_documentation
handle_phase_7_documentation(s, u) ==
    Done(s, IF Has(u, disbursement_words) THEN <<Msg("disbursement_timeline")>>
            ELSE IF Has(u, document_words) THEN <<Msg("documents_required")>>
            ELSE IF Has(u, emi_words) THEN <<Msg("emi_details")>>
            ELSE <<Msg("loan_approved")>>)

\* The salary-slip upload widget of render_chat_layout. A file is what the
\* document-level validation sees of it: size in range, extension allowed,
\* a salary keyword in its name.
SlipFiles == [size_ok : BOOLEAN, ext_ok : BOOLEAN, keyword_ok : BOOLEAN]

\* An upload that does not look at the file name.
upload_any_name(s, file) ==
    IF ~file.size_ok \/ ~file.ext_ok THEN
        Done([s EXCEPT !.salary_slip_verified = FALSE,
                       !.awaiting_salary_slip = TRUE],
             <<Msg("document_verification_failed")>>)
    ELSE slip_underwriting([s EXCEPT !.salary_slip_verified = TRUE,
                                     !.awaiting_salary_slip = FALSE],
                           <<Msg("document_verification_report")>>)

upload_salary_slip(s, file) ==
    IF ~file.size_ok \/ ~file.ext_ok THEN
        Done([s EXCEPT !.salary_slip_verified = FALSE,
                       !.awaiting_salary_slip = TRUE],
             <<Msg("document_verification_failed")>>)
    ELSE IF ~file.keyword_ok THEN
        Done([s EXCEPT !.awaiting_slip_confirm = TRUE,
                       !.salary_slip_verified = FALSE,
                       !.awaiting_salary_slip = FALSE],
             <<Msg("document_verification_warning")>>)
    ELSE slip_underwriting([s EXCEPT !.salary_slip_verified = TRUE,
                                     !.awaiting_salary_slip = FALSE],
                           <<Msg("document_verification_report")>>)

----------------------------------------------------------------------------
(* app.py: the turn dispatcher and the operations of the page               *)

\* A dispatcher that checks the hand-off keywords in the opening as well.
process_ai_response_every_phase(s, u) ==
    IF detect_handoff_trigger(u)
        THEN Done(s, <<Msg("keyword_handoff")>>)
    ELSE CASE s.conversation_phase = 1 -> handle_phase_1_warm_opening(s, u)
           [] s.conversation_phase = 2 -> handle_phase_2_purpose_discovery(s, u)
           [] s.conversation_phase = 3 -> handle_phase_3_verification(s, u)
           [] s.conversation_phase = 4 -> handle_phase_4_needs_analysis(s, u)
           [] s.conversation_phase = 5 -> handle_phase_5_options_presentation(s, u)
           [] s.conversation_phase = 6 -> handle_phase_6_confirmation(s, u)
           [] OTHER -> handle_phase_7_documentation(s, u)

\* process_ai_response: outside the opening a hand-off keyword is answered
\* with the hand-off message and nothing else; otherwise the handler of the
\* current phase runs.
process_ai_response(s, u) ==
    IF s.conversation_phase # 1 /\ detect_handoff_trigger(u)
        THEN Done(s, <<Msg("keyword_handoff")>>)
    ELSE CASE s.conversation_phase = 1 -> handle_phase_1_warm_opening(s, u)
           [] s.conversation_phase = 2 -> handle_phase_2_purpose_discovery(s, u)
           [] s.conversation_phase = 3 -> handle_phase_3_verification(s, u)
           [] s.conversation_phase = 4 -> handle_phase_4_needs_analysis(s, u)
           [] s.conversation_phase = 5 -> handle_phase_5_options_presentation(s, u)
           [] s.conversation_phase = 6 -> handle_phase_6_confirmation(s, u)
           [] OTHER -> handle_phase_7_documentation(s, u)

\* The purposes of the quick-action buttons that are tried, and the user
\* message a button adds ("I need a loan for <purpose>").
QuickPurposes == {"wedding"}

QuickUtter(purpose) ==
    Utter("i need a loan for " \o purpose,
          IF purpose = "wedding" THEN {"need", "wedding"}
          ELSE {"need", "no", "renovation"},
          0, "", title(purpose), FALSE, FALSE, FALSE, 0, 0, FALSE, "", -1)

\* The messages tried in each phase.
OpeningTexts == {"hi", "ravi", "i am ravi i need 8 lakh", "wedding",
                 "talk to a human"}
PurposeTexts == {"wedding", "i need a loan", "4 lakh", "talk to a human"}
VerificationTexts == {"yes", "no", "talk to a human"}
NeedsTexts == {"2 lakh", "4 lakh", "8 lakh", "12 lakh", "yes", "no", "hmm",
               "path a", "path b", "path c", "path 1", "path 2", "path 3",
               "explore other options", "why is the rate so high",
               "i need more money", "i need more money 12 lakh",
               "emi is too much", "yes but the rate is high",
               "i want the full amount", "talk to a human"}
OptionsTexts == {"option 1", "option 2", "option 3", "12 months",
                 "why is the rate so high", "i need more money",
                 "emi is too much", "yes", "no", "talk to a human"}
ConfirmationTexts == {"yes", "no", "hmm", "talk to a human"}
DocumentationTexts == {"hmm", "i need a loan", "emi is too much"}

TextsAt(phase) ==
    CASE phase = 1 -> OpeningTexts
      [] phase = 2 -> PurposeTexts
      [] phase = 3 -> VerificationTexts
      [] phase = 4 -> NeedsTexts
      [] phase = 5 -> OptionsTexts
      [] phase = 6 -> ConfirmationTexts
      [] OTHER -> DocumentationTexts

InputsAt(phase) ==
    {u \in ChatUtterances : u.text \in TextsAt(phase)}
    \cup (IF phase = 3 THEN PhoneUtterances ELSE {})

\* Every message of the vocabulary a user can send in a phase.
Messages(phase) ==
    ChatUtterances \cup (IF phase = 3 THEN PhoneUtterances ELSE {})

MaxRun == 4

\* The history kept beside the session after an operation with this outcome.
ladder_after(r, attempts_before) ==
    IF IsNone(r.negotiated) THEN [ladder EXCEPT !.amount_run = 0]
    ELSE [last_domain |-> r.negotiated,
          amount_run |->
              IF r.negotiated # Some("AMOUNT") THEN 0
              ELSE IF attempts_before = 0 THEN 1
              ELSE IF ladder.amount_run = 0 THEN 0
              ELSE IF ladder.amount_run < MaxRun THEN ladder.amount_run + 1
              ELSE MaxRun]

negotiation_fields(s) ==
    [negotiation_attempts |-> s.negotiation_attempts,
     human_handoff |-> s.human_handoff,
     negotiation_active |-> s.negotiation_active,
     last_domain |-> ladder.last_domain]

\* The state an operation with outcome r leaves.
Outcome(op, r) ==
    /\ session' = r.s
    /\ reply' = r.reply
    /\ turn' = [op |-> op, fault |-> r.fault, negotiated |-> r.negotiated]
    /\ pre' = negotiation_fields(session)
    /\ ladder' = ladder_after(r, session.negotiation_attempts)
    /\ UNCHANGED <<elig_in, elig_out, dti_in, dti_out>>

Finish(op, r) == Outcome(op, r) /\ UNCHANGED tiers

NoHistory == [last_domain |-> None, amount_run |-> 0]

Init ==
    /\ elig_in = None
    /\ elig_out = None
    /\ dti_in = None
    /\ dti_out = None
    /\ session = InitSession
    /\ reply = <<>>
    /\ turn = [op |-> "load", fault |-> FALSE, negotiated |-> None]
    /\ pre = [negotiation_attempts |-> 0, human_handoff |-> FALSE,
              negotiation_active |-> FALSE, last_domain |-> None]
    /\ ladder = NoHistory
    /\ tiers = 0

\* The "Talk to Maya" button of the landing page.
TalkToMaya ==
    /\ ~session.started
    /\ Finish("start", Done([session EXCEPT !.started = TRUE],
                            <<Msg("greeting")>>))

\* A quick-action button of the landing page: the greeting, the pre-filled
\* purpose, and the user message, which the chat layout then answers.
QuickAction ==
    \E purpose \in QuickPurposes :
        /\ ~session.started
        /\ LET r == process_ai_response(
                        [session EXCEPT !.started = TRUE,
                                        !.prefilled_loan_purpose = Some(purpose)],
                        QuickUtter(purpose))
           IN  Finish("quick", [r EXCEPT !.reply = <<Msg("greeting")>> \o r.reply])

\* A message typed into the chat input.
Chat ==
    \E u \in InputsAt(session.conversation_phase) :
        /\ session.started
        /\ Finish("chat", process_ai_response(session, u))

\* A file given to the salary-slip uploader, which is on the page while a
\* slip is awaited.
Upload ==
    \E file \in SlipFiles :
        /\ session.started
        /\ session.awaiting_salary_slip
        /\ ~session.salary_slip_verified
        /\ Finish("upload", upload_salary_slip(session, file))

\* The reset button of the sidebar deletes every key of the session.
Cleared ==
    /\ session' = InitSession
    /\ reply' = <<>>
    /\ turn' = [op |-> "reset", fault |-> FALSE, negotiated |-> None]
    /\ pre' = negotiation_fields(session)
    /\ ladder' = NoHistory
    /\ UNCHANGED <<elig_in, elig_out, dti_in, dti_out>>

Reset == Cleared /\ UNCHANGED tiers

Next == TalkToMaya \/ QuickAction \/ Chat \/ Upload \/ Reset

Spec == Init /\ [][Next]_vars

----------------------------------------------------------------------------
(* Specification of the underwriting rules: the inputs are drawn from       *)
(* bounded sets, the one action evaluates them.                             *)

EligScores == {650, 699, 700, 705, 749, 780, 800}
EligLimits == {200000, 300000, 500000}
EligSalaries == {0, 30000, 75000}
EligCurrentEmis == {0, 15000, 40000}
EligRequested == {100000, 200000, 300000, 350000, 400000, 500000,
                  600000, 700000, 1000000, 1100000}
EligSlipSalaries == {None, Some(0), Some(30000), Some(75000)}

EligUsers ==
    [score : EligScores, limit : EligLimits,
     current_emis : EligCurrentEmis, salary : EligSalaries]

InitElig ==
    /\ elig_in \in [user : EligUsers, requested_amount : EligRequested,
                    monthly_salary : EligSlipSalaries]
    /\ elig_out = None
    /\ dti_in = None
    /\ dti_out = None
    /\ session = InitSession
    /\ reply = <<>>
    /\ turn = [op |-> "load", fault |-> FALSE, negotiated |-> None]
    /\ pre = [negotiation_attempts |-> 0, human_handoff |-> FALSE,
              negotiation_active |-> FALSE, last_domain |-> None]
    /\ ladder = NoHistory
    /\ tiers = 0

\* UnderwritingAgent.evaluate: one call of check_eligibility.
Evaluate ==
    /\ IsNone(elig_out)
    /\ elig_out' = Some(check_eligibility(elig_in.user,
                            elig_in.requested_amount, elig_in.monthly_salary))
    /\ UNCHANGED <<elig_in, dti_in, dti_out, session, reply, turn, pre, ladder,
                   tiers>>

NextElig == Evaluate

SpecElig == InitElig /\ [][NextElig]_vars

----------------------------------------------------------------------------
(* Specification of the affordability computation: the arguments are drawn  *)
(* from bounded sets around the 50% boundary, the one action computes the   *)
(* result.                                                                  *)

DtiSalaries == {0, 1000, 10000, 30000, 75000}
DtiProposedEmis == {0, 495, 499, 500, 501, 4495, 4496, 4499, 4500, 4504,
                    4505, 14985, 14999, 15000, 15001, 37499, 37500}
DtiCurrentEmis == {0, 1, 500, 15000}

InitDti ==
    /\ dti_in \in [salary : DtiSalaries, proposed_emi : DtiProposedEmis,
                   current_emis : DtiCurrentEmis]
    /\ dti_out = None
    /\ elig_in = None
    /\ elig_out = None
    /\ session = InitSession
    /\ reply = <<>>
    /\ turn = [op |-> "load", fault |-> FALSE, negotiated |-> None]
    /\ pre = [negotiation_attempts |-> 0, human_handoff |-> FALSE,
              negotiation_active |-> FALSE, last_domain |-> None]
    /\ ladder = NoHistory
    /\ tiers = 0

\* One call of calculate_dti_with_existing_loans.
Affordability ==
    /\ IsNone(dti_out)
    /\ dti_out' = Some(calculate_dti_with_existing_loans(
                           dti_in.salary, dti_in.proposed_emi,
                           dti_in.current_emis))
    /\ UNCHANGED <<dti_in, elig_in, elig_out, session, reply, turn, pre,
                   ladder, tiers>>

NextDti == Affordability

SpecDti == InitDti /\ [][NextDti]_vars

----------------------------------------------------------------------------
(* The conversation with a count of the tiered responses of the negotiator  *)

\* The count is kept up to this number.
MaxTiers == 4

\* The tiered (non-hand-off) responses among the messages of an outcome.
TierCount(r) == Cardinality({i \in 1..Len(r.reply) : r.reply[i].kind = "tier"})

tiers_after(r) ==
    IF tiers + TierCount(r) < MaxTiers THEN tiers + TierCount(r) ELSE MaxTiers

Counted(op, r) == Outcome(op, r) /\ tiers' = tiers_after(r)

CountedTalkToMaya ==
    /\ ~session.started
    /\ Counted("start", Done([session EXCEPT !.started = TRUE],
                             <<Msg("greeting")>>))

CountedQuickAction ==
    \E purpose \in QuickPurposes :
        /\ ~session.started
        /\ LET r == process_ai_response(
                        [session EXCEPT !.started = TRUE,
                                        !.prefilled_loan_purpose = Some(purpose)],
                        QuickUtter(purpose))
           IN  Counted("quick", [r EXCEPT !.reply = <<Msg("greeting")>> \o r.reply])

CountedChat ==
    \E u \in InputsAt(session.conversation_phase) :
        /\ session.started
        /\ Counted("chat", process_ai_response(session, u))

CountedUpload ==
    \E file \in SlipFiles :
        /\ session.started
        /\ session.awaiting_salary_slip
        /\ ~session.salary_slip_verified
        /\ Counted("upload", upload_salary_slip(session, file))

\* The reset deletes the session, and a new session begins.
CountedReset == Cleared /\ tiers' = 0

NextTiers ==
    CountedTalkToMaya \/ CountedQuickAction \/ CountedChat \/ CountedUpload
        \/ CountedReset

SpecTiers == Init /\ [][NextTiers]_vars

----------------------------------------------------------------------------
(* Claims about check_eligibility (checked under SpecElig)                  *)

EligDone == IsSome(elig_out)
EligUser == elig_in.user
EligRate == get_risk_based_rate(EligUser.score)
EligDti60(salary) ==
    calculate_dti_ratio(calculate_emi(elig_in.requested_amount, 60, EligRate),
                        EligUser.current_emis, salary)
EligEmi36 == calculate_emi(elig_in.requested_amount, 36, EligRate)

\* C1: every found profile with a credit score below 700 is rejected,
\* whatever the requested amount and the salary (rule 1 comes first).
C1_ScoreGate ==
    (EligDone /\ EligUser.score < 700) => Val(elig_out).status = "REJECT"

\* A score of 699 asking within its limit with no other debt: rule 2 alone
\* would approve, rule 1 rejects.
C1_Witness ==
    /\ EligDone
    /\ EligUser.score = 699
    /\ elig_in.requested_amount <= EligUser.limit
    /\ EligUser.current_emis = 0
    /\ EligUser.salary = 75000
    /\ Val(elig_out).status = "REJECT"

\* C2: with a score of at least 700, a request above twice the limit is
\* rejected with max_eligible = 2 x limit, regardless of the salary.
C2_HardCap ==
    (EligDone /\ EligUser.score >= 700
        /\ elig_in.requested_amount > 2 * EligUser.limit)
    => /\ Val(elig_out).status = "REJECT"
       /\ Val(elig_out).max_eligible = Some(2 * EligUser.limit)

\* Limit 300000, request 700000, a salary supplied: max_eligible 600000.
C2_Witness ==
    /\ EligDone
    /\ EligUser.score >= 700
    /\ EligUser.limit = 300000
    /\ elig_in.requested_amount = 700000
    /\ elig_in.monthly_salary = Some(75000)
    /\ Val(elig_out).status = "REJECT"
    /\ Val(elig_out).max_eligible = Some(600000)

\* C3: with a score of at least 700 and limit < request <= 2 x limit:
\* CONDITIONAL with a salary-slip need when no salary is supplied; with a
\* salary, REJECT when the DTI of the 60-month EMI plus existing EMIs against
\* that salary is above 50%, otherwise APPROVE with the 36-month EMI.
C3_ConditionalBand ==
    (EligDone /\ EligUser.score >= 700
        /\ elig_in.requested_amount > EligUser.limit
        /\ elig_in.requested_amount <= 2 * EligUser.limit)
    => IF IsNone(elig_in.monthly_salary)
       THEN /\ Val(elig_out).status = "CONDITIONAL"
            /\ Val(elig_out).needs = Some("SALARY_SLIP")
       ELSE IF EligDti60(Val(elig_in.monthly_salary)) > 5000
       THEN Val(elig_out).status = "REJECT"
       ELSE /\ Val(elig_out).status = "APPROVE"
            /\ Val(elig_out).emi = Some(EligEmi36)
            /\ Val(elig_out).tenure_months = Some(36)

\* An approval in the band, decided on a supplied salary that differs from
\* the salary on file.
C3_Witness ==
    /\ EligDone
    /\ EligUser.score >= 700
    /\ elig_in.requested_amount > EligUser.limit
    /\ elig_in.requested_amount <= 2 * EligUser.limit
    /\ elig_in.monthly_salary = Some(75000)
    /\ EligUser.salary = 30000
    /\ Val(elig_out).status = "APPROVE"
    /\ Val(elig_out).type = Some("SALARY_VERIFIED")

\* C4: with a score of at least 700 and a request within the limit: REJECT
\* exactly when the DTI of the 60-month EMI plus existing EMIs against the
\* salary on file is above 60%; otherwise APPROVE of type INSTANT with the
\* EMI and tenure of the 36-month plan.
C4_InstantBand ==
    (EligDone /\ EligUser.score >= 700
        /\ elig_in.requested_amount <= EligUser.limit)
    => /\ (Val(elig_out).status = "REJECT") <=> (EligDti60(EligUser.salary) > 6000)
       /\ (Val(elig_out).status # "REJECT") =>
            /\ Val(elig_out).status = "APPROVE"
            /\ Val(elig_out).type = Some("INSTANT")
            /\ Val(elig_out).emi = Some(EligEmi36)
            /\ Val(elig_out).tenure_months = Some(36)

\* A pre-approved request rejected on the 60% check against the salary on
\* file, although a higher salary is supplied in the call.
C4_Witness ==
    /\ EligDone
    /\ EligUser.score >= 700
    /\ elig_in.requested_amount <= EligUser.limit
    /\ EligUser.salary = 30000
    /\ elig_in.monthly_salary = Some(75000)
    /\ Val(elig_out).status = "REJECT"
----------------------------------------------------------------------------
(* The negotiation ladder in the conversation                               *)

Pushback == IsSome(turn.negotiated)

HandoffOnly == reply = <<Msg("escalate_to_human")>>

NoTierReply == \A i \in 1..Len(reply) : reply[i].kind # "tier"

\* C5: a pushback that fires while the attempt counter is k is answered with
\* the Tier-(k+1) response of its domain and increments the counter, for
\* k = 0, 1, 2; one that fires at counter 3 is answered with the hand-off
\* message alone and sets human_handoff.
C5_LadderStep ==
    Pushback =>
        LET k == pre.negotiation_attempts
            d == Val(turn.negotiated)
        IN  /\ k < 3 => /\ reply = <<TierMsg(d, k + 1)>>
                        /\ session.negotiation_attempts = k + 1
            /\ k >= 3 => HandoffOnly /\ session.human_handoff

\* C6: the attempt counter is between 0 and 3 in every reachable state.
C6_CounterBounded == session.negotiation_attempts \in 0..3

\* The fourth pushback: it found the counter at 3 and forced the hand-off.
C6_Witness ==
    /\ Pushback
    /\ pre.negotiation_attempts = 3
    /\ session.negotiation_attempts = 3
    /\ session.human_handoff

\* C7: once human_handoff is set it stays set for the rest of the session,
\* no later turn produces a tiered negotiation response, and every later
\* pushback is answered with the hand-off message alone.
C7_HandoffTerminal ==
    (pre.human_handoff /\ turn.op # "reset") =>
        /\ session.human_handoff
        /\ NoTierReply
        /\ Pushback => HandoffOnly

\* A pushback made after the hand-off.
C7_Witness == pre.human_handoff /\ Pushback /\ HandoffOnly

\* C8: a pushback in a domain different from the domain of the previous
\* pushback is answered with the Tier-1 response of the new domain.
C8_DomainChangeResets ==
    (Pushback /\ ~turn.fault /\ IsSome(pre.last_domain)
        /\ pre.last_domain # turn.negotiated)
    => reply = <<TierMsg(Val(turn.negotiated), 1)>>

\* C9: after a turn that closes an active negotiation without a pushback
\* (an acceptance, or the advance to Options Presentation) the attempt
\* counter is 0.
C9_AcceptanceResets ==
    (turn.op = "chat" /\ pre.negotiation_active /\ ~session.negotiation_active
        /\ ~Pushback)
    => session.negotiation_attempts = 0

\* C10: of consecutive AMOUNT pushbacks begun at counter 0, the first is
\* answered with Tier 1, the second with Tier 2, the third with Tier 3 and
\* the fourth with the hand-off message, after which the counter is 3 and
\* human_handoff is set.
C10_FullCycle ==
    /\ ladder.amount_run \in 1..3 =>
            reply = <<TierMsg("AMOUNT", ladder.amount_run)>>
    /\ ladder.amount_run >= 4 =>
            /\ HandoffOnly
            /\ session.negotiation_attempts = 3
            /\ session.human_handoff

\* The fourth consecutive AMOUNT pushback.
C10_Witness == ladder.amount_run = 4 /\ session.human_handoff

----------------------------------------------------------------------------
(* Claims about the dispatcher and the phase handlers.  A claim about what  *)
(* a message does is stated over every reachable session and every message  *)
(* of the vocabulary: Answer(u) is the outcome process_ai_response gives.   *)

Answer(u) == process_ai_response(session, u)

Sendable == IF session.started THEN Messages(session.conversation_phase) ELSE {}

\* C11: a message that matches a compliance pattern is answered with the
\* compliance alert alone, and the session is left as it was, in every phase.
C11_ComplianceFirst ==
    \A u \in Sendable :
        IsSome(enforce_compliance(u)) =>
            /\ Answer(u).reply = <<Msg(Val(enforce_compliance(u)))>>
            /\ Answer(u).s = session

KeywordHandoff == <<Msg("keyword_handoff")>>

\* C12: outside the Warm Opening a message with a hand-off keyword is
\* answered with the hand-off message alone and leaves every field of the
\* session as it was; in the Warm Opening the keyword check is not applied
\* and the message is handled as an opening message.
C12_HandoffShortCircuit ==
    \A u \in Sendable :
        detect_handoff_trigger(u) =>
            IF session.conversation_phase # 1
            THEN /\ Answer(u).reply = KeywordHandoff
                 /\ Answer(u).s = session
            ELSE /\ Answer(u).reply # KeywordHandoff
                 /\ Answer(u) = handle_phase_1_warm_opening(session, u)

\* A hand-off message sent while an identity mismatch was pending has been
\* answered, and the pending confirmation is still there.
C12_Witness ==
    /\ turn.op = "chat"
    /\ reply = KeywordHandoff
    /\ session.conversation_phase = 3
    /\ session.pending_identity_mismatch

\* The session is verified: a profile has been taken as the user's.
Verified(s) == IsSome(s.user_data)

\* The phone of the message belongs to a profile whose name and the name
\* given in the opening do not contain one another.
NamesDisagree(u) ==
    /\ IsSome(get_user(u.phone))
    /\ IsSome(session.user_name)
    /\ Val(session.user_name) # ""
    /\ <<Val(session.user_name), Val(get_user(u.phone)).name>>
           \notin LooseNameMatches

InVerification ==
    /\ session.conversation_phase = 3
    /\ ~session.pending_new_customer_query

\* What a reply to the identity check does: an affirmative one verifies the
\* session with the profile found and leaves Verification, any other one
\* drops the pending check, stays unverified in Verification and asks for
\* the phone number again.
MismatchReply(u) ==
    IF Has(u, affirmative_mismatch)
    THEN /\ Answer(u).s.user_data = session.mismatch_user_data
         /\ Answer(u).s.conversation_phase \in {4, 5}
         /\ ~Answer(u).s.pending_identity_mismatch
    ELSE /\ ~Verified(Answer(u).s)
         /\ Answer(u).s.conversation_phase = 3
         /\ ~Answer(u).s.pending_identity_mismatch
         /\ Answer(u).reply = <<Msg("profile_not_used")>>

\* A phone number whose profile disagrees with the stated name does not
\* verify the session on that turn.
MismatchFound(u) ==
    /\ ~Verified(Answer(u).s)
    /\ Answer(u).s.conversation_phase = 3
    /\ Answer(u).s.pending_identity_mismatch
    /\ Answer(u).s.mismatch_user_data = get_user(u.phone)

\* C13: a phone number found under a name that disagrees with the stated one
\* leaves the session unverified in Verification with the identity check
\* pending; while it is pending, a reply without a hand-off keyword verifies
\* the session only if it is affirmative, and otherwise clears the pending
\* check, stays in Verification unverified and asks for the phone again.
C13_MismatchBlocks ==
    InVerification =>
        /\ ~Verified(session)
        /\ \A u \in Sendable :
            ~detect_handoff_trigger(u) =>
                /\ (~session.pending_identity_mismatch /\ NamesDisagree(u))
                       => MismatchFound(u)
                /\ session.pending_identity_mismatch => MismatchReply(u)

\* The identity check was pending and a reply that was not affirmative has
\* cleared it.
C13_Witness ==
    /\ turn.op = "chat"
    /\ reply = <<Msg("profile_not_used")>>
    /\ session.conversation_phase = 3
    /\ ~session.pending_identity_mismatch
    /\ ~Verified(session)

\* C13 as stated: while the identity check is pending, every reply that is
\* not affirmative clears it.
C13_AnyOtherReplyClears ==
    (InVerification /\ session.pending_identity_mismatch) =>
        \A u \in Sendable : MismatchReply(u)

\* The message is a phone number under which no profile is stored.
LookupMiss(u) ==
    /\ u.phone # ""
    /\ \A p \in Profiles : p.phone # u.phone

\* The defined outcome of a lookup miss.
MissOutcome(u) ==
    /\ ~Answer(u).fault
    /\ Answer(u).s = [session EXCEPT !.pending_new_customer_query = TRUE]
    /\ Answer(u).reply = <<Msg("profile_not_found")>>

\* The turn after a lookup miss: the query is cleared and the phone number
\* is asked for again.
QueryCleared(u) ==
    /\ ~Answer(u).fault
    /\ Answer(u).s = [session EXCEPT !.pending_new_customer_query = FALSE]
    /\ Answer(u).reply \in {<<Msg("existing_customers_only")>>,
                            <<Msg("ask_correct_number")>>}

\* C14: a phone number that is not in the store leaves the session in
\* Verification, unverified and without a profile, with the new-customer
\* query pending, and raises nothing; the next message, if it holds no
\* hand-off keyword, clears the query and asks for the phone number again
\* whatever it says.
C14_LookupMissOneShot ==
    (session.started /\ session.conversation_phase = 3) =>
        /\ ~Verified(session)
        /\ \A u \in Sendable :
            ~detect_handoff_trigger(u) =>
                /\ (/\ ~session.pending_new_customer_query
                    /\ ~session.pending_identity_mismatch
                    /\ LookupMiss(u)) => MissOutcome(u)
                /\ session.pending_new_customer_query => QueryCleared(u)

\* The new-customer query was pending and the next message has cleared it.
C14_Witness ==
    /\ turn.op = "chat"
    /\ reply = <<Msg("ask_correct_number")>>
    /\ session.conversation_phase = 3
    /\ ~session.pending_new_customer_query
    /\ ~Verified(session)

\* C14 as stated: the message after a lookup miss clears the query whatever
\* it says.
C14_AlwaysCleared ==
    (session.started /\ session.conversation_phase = 3
        /\ session.pending_new_customer_query) =>
        \A u \in Sendable : QueryCleared(u)

\* C15: in Purpose Discovery a message in which detect_loan_purpose finds no
\* purpose keyword leaves the session in Purpose Discovery with the loan
\* purpose unset and is answered with the request for the purpose.
C15_UnrecognisedPurposeBlocks ==
    (session.started /\ session.conversation_phase = 2) =>
        \A u \in Sendable :
            (detect_loan_purpose(u) = "Not specified"
                /\ ~detect_handoff_trigger(u)) =>
                /\ Answer(u).s.conversation_phase = 2
                /\ IsNone(Answer(u).s.loan_purpose)
                /\ Answer(u).reply \in {<<Msg("ask_purpose_again")>>,
                                        <<Msg("ask_purpose_noting_amount")>>}

\* The plans are gated: a slip is awaited and not verified, or the
\* confirmation of a doubtful slip is pending.
PlansGated(s) ==
    \/ s.awaiting_salary_slip /\ ~s.salary_slip_verified
    \/ s.awaiting_slip_confirm

\* The amount validation ran in the turn with outcome r and was CONDITIONAL.
ValidatedConditional(r) ==
    /\ \E i \in 1..Len(r.reply) : r.reply[i] = Msg("needs_analysis")
    /\ IsSome(r.s.user_data)
    /\ IsSome(r.s.requested_amount)
    /\ validate_amount_request(Val(r.s.user_data),
                               Val(r.s.requested_amount)).status = "CONDITIONAL"

\* C16: a turn whose amount validation is CONDITIONAL ends in Options
\* Presentation with a salary slip awaited; and while the plans are gated no
\* chat message selects an option, advances the negotiation counter or
\* moves the session to Confirmation.
C16_ConditionalGatesPlans ==
    /\ session.conversation_phase \in {3, 4} =>
           \A u \in Sendable :
               LET r == Answer(u)
               IN  ValidatedConditional(r) =>
                       /\ r.s.conversation_phase = 5
                       /\ r.s.awaiting_salary_slip
                       /\ PlansGated(r.s)
    /\ PlansGated(session) =>
           \A u \in Sendable :
               LET r == Answer(u)
               IN  /\ r.s.selected_option = session.selected_option
                   /\ r.s.negotiation_attempts = session.negotiation_attempts
                   /\ r.s.conversation_phase # 6

\* A pushback on the rate was sent while the slip was awaited and was
\* answered without a tier.
C16_Witness ==
    /\ turn.op = "chat"
    /\ reply = <<Msg("rate_explained_upload_pending")>>
    /\ session.conversation_phase = 5
    /\ session.loan_type = Some("CONDITIONAL")
    /\ PlansGated(session)

\* The amount validation ran in the turn with outcome r, on the amount the
\* session now holds.
Validated(r) ==
    /\ \E i \in 1..Len(r.reply) : r.reply[i] = Msg("needs_analysis")
    /\ IsSome(r.s.user_data)
    /\ IsSome(r.s.requested_amount)

\* The 36-month instalment of the amount is not affordable within the DTI
\* limit of the needs analysis.
DtiUnsafe(user, amount) ==
    ~calculate_dti_with_existing_loans(
         user.salary,
         calculate_emi(amount, 36, get_risk_based_rate(user.score)),
         user.current_emis).safe

\* The amount offered instead: twice the limit above twice the limit, the
\* amount affordable over 60 months otherwise.
AlternativeAmount(user, amount) ==
    IF amount > 2 * user.limit THEN 2 * user.limit
    ELSE calculate_safe_amount(user.salary, user.current_emis,
                               get_risk_based_rate(user.score))

\* C17: a turn that validates an amount which is DTI-unsafe, with a
\* validation that is neither CONDITIONAL nor INSTANT_APPROVE, ends in Needs
\* Analysis awaiting a renegotiation, with the alternative amount of the
\* validation stored: twice the limit for EXCEED_LIMIT, the 60-month safe
\* amount for OVER_CAPACITY.
C17_UnsafeAmountRenegotiates ==
    session.conversation_phase \in {3, 4} =>
        \A u \in Sendable :
            LET r      == Answer(u)
                user   == Val(r.s.user_data)
                amount == Val(r.s.requested_amount)
                status == validate_amount_request(user, amount).status
            IN  (/\ Validated(r)
                 /\ DtiUnsafe(user, amount)
                 /\ status \notin {"CONDITIONAL", "INSTANT_APPROVE"}) =>
                    /\ status = (IF amount > 2 * user.limit
                                 THEN "EXCEED_LIMIT" ELSE "OVER_CAPACITY")
                    /\ r.s.conversation_phase = 4
                    /\ r.s.awaiting_renegotiation
                    /\ r.s.safe_max_amount =
                           Some(AlternativeAmount(user, amount))

\* An amount above twice the limit was validated and the session waits in
\* Needs Analysis with twice the limit as the alternative.
C17_Witness ==
    /\ turn.op = "chat"
    /\ reply = <<Msg("needs_analysis")>>
    /\ session.conversation_phase = 4
    /\ session.awaiting_renegotiation
    /\ session.loan_type = Some("EXCEED_LIMIT")
    /\ session.safe_max_amount = Some(2 * Val(session.user_data).limit)

\* The uploader is on the page.
UploadOpen ==
    /\ session.started
    /\ session.awaiting_salary_slip
    /\ ~session.salary_slip_verified

\* What an upload does with a file: verified only if the size, the type
\* and the keyword of the file name are all right; a wrong size or type
\* leaves the slip unverified and awaited; a doubtful name alone leaves it
\* unverified with the confirmation pending.
UploadChecked(file) ==
    LET r == upload_salary_slip(session, file)
    IN  /\ r.s.salary_slip_verified
            <=> (file.size_ok /\ file.ext_ok /\ file.keyword_ok)
        /\ (~file.size_ok \/ ~file.ext_ok) =>
               /\ r.s.awaiting_salary_slip
               /\ ~r.s.awaiting_slip_confirm
               /\ r.reply = <<Msg("document_verification_failed")>>
        /\ (file.size_ok /\ file.ext_ok /\ ~file.keyword_ok) =>
               /\ r.s.awaiting_slip_confirm
               /\ r.reply = <<Msg("document_verification_warning")>>

\* What a reply to the warning about a doubtful slip does: a confirming one
\* verifies the slip, any other one returns to awaiting the upload.
SlipConfirmReply(u) ==
    LET r == Answer(u)
    IN  /\ ~r.s.awaiting_slip_confirm
        /\ r.s.salary_slip_verified <=> Has(u, affirm)
        /\ r.s.awaiting_salary_slip <=> ~Has(u, affirm)
        /\ r.reply[1] = (IF Has(u, affirm) THEN Msg("slip_override_ack")
                         ELSE Msg("reupload_slip"))

\* The slip becomes verified only in an upload that passed the checks or in
\* the reply that confirms a doubtful slip.
VerifiedOnlyThere ==
    (session'.salary_slip_verified /\ ~session.salary_slip_verified) =>
        \/ /\ turn'.op = "upload"
           /\ reply'[1] = Msg("document_verification_report")
        \/ /\ turn'.op = "chat"
           /\ session.awaiting_slip_confirm
           /\ reply'[1] = Msg("slip_override_ack")

SlipChecksHold ==
    /\ UploadOpen => \A file \in SlipFiles : UploadChecked(file)
    /\ session.awaiting_slip_confirm =>
           /\ session.conversation_phase = 5
           /\ ~session.salary_slip_verified
           /\ \A u \in Sendable :
                  ~detect_handoff_trigger(u) => SlipConfirmReply(u)

\* C18: the slip becomes verified only by an upload that passed the size,
\* type and file-name checks or by a confirming reply after a doubtful file
\* name; a wrong size or type leaves it unverified and awaited; a reply
\* without a hand-off keyword that does not confirm a doubtful slip returns
\* to awaiting the upload.
C18_SlipNeverSilentlyAccepted == []SlipChecksHold /\ [][VerifiedOnlyThere]_vars

\* A doubtful slip was uploaded and a reply that did not confirm it has
\* returned the session to awaiting the upload.
C18_Witness ==
    /\ turn.op = "chat"
    /\ reply = <<Msg("reupload_slip")>>
    /\ session.awaiting_salary_slip
    /\ ~session.salary_slip_verified
    /\ ~session.awaiting_slip_confirm

\* C18 as stated: every reply to the warning that does not confirm returns
\* to awaiting the upload.
C18_NonConfirmingReplyReturns ==
    session.awaiting_slip_confirm => \A u \in Sendable : SlipConfirmReply(u)

\* C19: once the session is in Documentation, no message of the user,
\* whatever it says, changes the phase.
C19_DocumentationTerminal ==
    session.conversation_phase = 7 =>
        \A u \in Sendable : Answer(u).s.conversation_phase = 7

\* A question was asked in Documentation and answered there.
C19_Witness ==
    /\ turn.op = "chat"
    /\ reply = <<Msg("emi_details")>>
    /\ session.conversation_phase = 7

Sanctioned ==
    <<Msg("generating_sanction_letter"), Msg("sanction_success")>>

\* What a reply in Confirmation does: an affirmative one generates the
\* sanction letter and moves to Documentation, a negative one moves back to
\* the options, any other one is answered with the question again and
\* changes nothing.
ConfirmationReply(u) ==
    LET r == Answer(u)
    IN  IF Has(u, affirmative_confirmation) THEN
            /\ r.s.conversation_phase = 7
            /\ r.s.sanction_letter
            /\ r.reply = Sanctioned
        ELSE IF Has(u, negative) THEN
            /\ r.s.conversation_phase = 5
            /\ ~r.s.sanction_letter
            /\ r.reply = <<Msg("options_again"), Msg("goldilocks")>>
        ELSE
            /\ r.s = session
            /\ r.reply = <<Msg("ask_confirmation")>>

\* The sanction letter is generated only by the turn that leaves
\* Confirmation for Documentation.
SanctionOnlyThere ==
    (session'.sanction_letter /\ ~session.sanction_letter) =>
        /\ session.conversation_phase = 6
        /\ session'.conversation_phase = 7
        /\ turn'.op = "chat"
        /\ reply' = Sanctioned

ConfirmationOutcomes ==
    session.conversation_phase = 6 =>
        /\ ~session.sanction_letter
        /\ \A u \in Sendable :
               ~detect_handoff_trigger(u) => ConfirmationReply(u)

----------------------------------------------------------------------------
(* Claims about the affordability result and the negotiation rules          *)

DtiDone == IsSome(dti_out) /\ dti_in.salary > 0

DtiTotal == dti_in.proposed_emi + dti_in.current_emis

\* C21: for a salary above 0 the result is safe exactly when the ratio of
\* the total EMI to the salary is below one half (a DTI strictly below 50);
\* at exactly one half the result reports 50.0 and is not safe, and a safe
\* result reports at most 50.0.
C21_SafeBelowHalf ==
    DtiDone =>
        /\ Val(dti_out).safe <=> (2 * DtiTotal < dti_in.salary)
        /\ (2 * DtiTotal = dti_in.salary) =>
               (Val(dti_out).dti = 500 /\ ~Val(dti_out).safe)
        /\ Val(dti_out).safe => Val(dti_out).dti <= 500

\* The total EMI is exactly half the salary and the result is not safe.
C21_Witness ==
    /\ DtiDone
    /\ 2 * DtiTotal = dti_in.salary
    /\ Val(dti_out).dti = 500
    /\ ~Val(dti_out).safe

\* C21 as stated: a result that reports a DTI of 50.0 is not safe, and a
\* safe result reports a DTI below 50.
C21_ReportedDtiDecides ==
    DtiDone =>
        /\ Val(dti_out).dti = 500 => ~Val(dti_out).safe
        /\ Val(dti_out).safe => Val(dti_out).dti < 500

\* A verified session in Needs Analysis.
InNeedsAnalysis ==
    /\ session.started
    /\ session.conversation_phase = 4
    /\ IsSome(session.user_data)

\* The message is recognised as an acceptance by the guard of lines
\* 1068-1083: an acceptance word, or a plausible amount without any
\* negotiation intent.
Acceptance(u) ==
    \/ Has(u, accept_words)
    \/ u.amount >= 10000 /\ IsNone(detect_negotiation_intent(u))

\* The turn closed the negotiation: no ladder response, no increment.
NegotiationClosed(r) ==
    /\ ~r.s.negotiation_active
    /\ IsNone(r.negotiated)
    /\ r.s.negotiation_attempts <= session.negotiation_attempts

\* C22: in Needs Analysis with the negotiation active, a message recognised
\* as an acceptance ends the turn with negotiation_active false, without a
\* ladder response and without incrementing the attempt counter.
C22_AcceptanceExits ==
    (InNeedsAnalysis /\ session.negotiation_active) =>
        \A u \in Sendable :
            (Acceptance(u) /\ ~detect_handoff_trigger(u)) =>
                NegotiationClosed(Answer(u))

\* C23: in Needs Analysis with the negotiation active, a message that
\* selects Path 1, 2 or 3 ends the turn with the attempt counter at 0 and
\* negotiation_active false.
C23_PathSelectionResets ==
    (InNeedsAnalysis /\ session.negotiation_active) =>
        \A u \in Sendable :
            (IsSome(detect_path_selection(u)) /\ ~detect_handoff_trigger(u)) =>
                /\ Answer(u).s.negotiation_attempts = 0
                /\ ~Answer(u).s.negotiation_active


DomainSignals == EMI_SIGNALS \cup RATE_SIGNALS \cup AMOUNT_SIGNALS

\* C24: detect_negotiation_intent returns none for every pure acceptance,
\* for every message of at most three characters, and for every message
\* that contains no challenge word (containment as the code tests it, on
\* the lower-cased text), whatever domain keywords it contains.
C24_NoFalsePositive ==
    \A u \in Sendable :
        (u.pure \/ u.short \/ ~Has(u, challenge_words)) =>
            IsNone(detect_negotiation_intent(u))

\* A negotiation is active in Needs Analysis and the user can send a pure
\* acceptance, a three-character domain keyword and a domain keyword
\* without challenge word; none of them has an intent.
C24_Witness ==
    /\ InNeedsAnalysis /\ session.negotiation_active
    /\ \E u \in Sendable : u.pure /\ IsNone(detect_negotiation_intent(u))
    /\ \E u \in Sendable : /\ u.short /\ Has(u, DomainSignals)
                           /\ IsNone(detect_negotiation_intent(u))
    /\ \E u \in Sendable : /\ ~u.short /\ ~u.pure /\ Has(u, DomainSignals)
                           /\ ~Has(u, challenge_words)
                           /\ IsNone(detect_negotiation_intent(u))

LowScore(s) == IsSome(s.user_data) /\ Val(s.user_data).score < 700
PlansRevealed(s) == s.conversation_phase = 5 /\ ~PlansGated(s)

\* C25: for a verified profile with a credit score below 700 the session is
\* never in Options Presentation with the plans revealed, never in
\* Confirmation and never in Documentation, and no sanction letter exists.
C25_ScoreGateWholeConversation ==
    (session.started /\ LowScore(session)) =>
        /\ ~PlansRevealed(session)
        /\ session.conversation_phase \notin {6, 7}
        /\ ~session.sanction_letter

OverHardCap(s) ==
    /\ IsSome(s.user_data)
    /\ IsSome(s.requested_amount)
    /\ Val(s.requested_amount) > 2 * Val(s.user_data).limit

\* C26: in Options Presentation, Confirmation and Documentation the
\* requested amount is at most twice the pre-approved limit of the profile,
\* and no sanction letter exists for a larger amount.
C26_HardCapWholeConversation ==
    (session.started /\ session.conversation_phase \in {5, 6, 7}) =>
        ~OverHardCap(session)

\* The underwriting decision on the verified slip, as slip_underwriting
\* takes it for the profile and the requested amount of the session.
SlipDecision(s) ==
    check_eligibility(Val(s.user_data), Val(s.requested_amount),
                      Some(Val(s.user_data).salary)).status

SlipRejected(s) ==
    /\ s.salary_slip_verified
    /\ IsSome(s.user_data)
    /\ IsSome(s.requested_amount)
    /\ SlipDecision(s) # "APPROVE"

\* C27: while the slip is verified and the underwriting decision for the
\* requested amount is not APPROVE, the session is neither in Confirmation
\* nor in Documentation.
C27_RejectionBlocks ==
    (session.started /\ SlipRejected(session)) =>
        session.conversation_phase \notin {6, 7}

\* A message of Needs Analysis that neither the hand-off detection, nor the
\* Path A/B/C interceptor, nor the path selection takes.
PlainMessage(u) ==
    /\ ~detect_handoff_trigger(u)
    /\ IsNone(phase4_top_paths(session, u))
    /\ IsNone(detect_path_selection(u))

\* C28: in Needs Analysis of a verified session, in every sub-state, a
\* message with RATE intent that is no Path A/B/C and no path selection is
\* answered by the negotiation ladder in the RATE domain on that turn.
C28_RateAlwaysIntercepted ==
    InNeedsAnalysis =>
        \A u \in Sendable :
            (detect_negotiation_intent(u) = Some("RATE") /\ PlainMessage(u)) =>
                Answer(u).negotiated = Some("RATE")

\* What a message with AMOUNT intent does while no negotiation is active:
\* the interception does not fire; the ladder answers only on the
\* counter-offer route of an awaited renegotiation; otherwise no tier is
\* given, the counter stays and no negotiation becomes active.
AmountFallsThrough(u) ==
    LET r == Answer(u)
    IN  /\ ~negotiator_fires(acceptance_guard(session, u), u)
        /\ IsSome(r.negotiated) =>
               /\ session.awaiting_renegotiation
               /\ r.negotiated = Some("AMOUNT")
        /\ IsNone(r.negotiated) =>
               /\ r.s.negotiation_attempts = session.negotiation_attempts
               /\ ~r.s.negotiation_active
               /\ \A i \in 1..Len(r.reply) : r.reply[i].kind # "tier"

\* C29: in Needs Analysis with negotiation_active false, a message with
\* AMOUNT intent is not taken by the negotiation interception and goes to
\* the renegotiation or amount-extraction logic; before any amount was
\* requested it is never answered by the ladder.
C29_AmountOnlyWhenActive ==
    (InNeedsAnalysis /\ ~session.negotiation_active) =>
        \A u \in Sendable :
            (detect_negotiation_intent(u) = Some("AMOUNT") /\ PlainMessage(u)) =>
                /\ AmountFallsThrough(u)
                /\ IsNone(session.requested_amount) => IsNone(Answer(u).negotiated)

\* A first amount entry with AMOUNT intent is validated, not negotiated.
C29_Witness ==
    /\ InNeedsAnalysis /\ ~session.negotiation_active
    /\ IsNone(session.requested_amount)
    /\ \E u \in Sendable :
           /\ detect_negotiation_intent(u) = Some("AMOUNT") /\ PlainMessage(u)
           /\ u.amount > 0
           /\ IsNone(Answer(u).negotiated)
           /\ Answer(u).s.requested_amount = Some(u.amount)
           /\ Answer(u).reply # <<>>
           /\ Answer(u).reply[1] = Msg("needs_analysis")

\* C30: in Needs Analysis the ladder never runs in the AMOUNT domain for a
\* message without negotiation intent, and whenever it runs, its domain is
\* the intent detected in the message or, without one, the stored domain.
C30_DomainNeverDefaults ==
    InNeedsAnalysis =>
        \A u \in Sendable :
            LET r      == Answer(u)
                intent == detect_negotiation_intent(u)
            IN  (IsSome(r.negotiated) /\ ~detect_handoff_trigger(u)) =>
                    /\ r.negotiated = Some("AMOUNT") => IsSome(intent)
                    /\ \/ r.negotiated = intent
                       \/ IsNone(intent) /\ r.negotiated = session.negotiation_domain
----------------------------------------------------------------------------
(* Claims on the alternative paths, the options and the order of phases     *)

PathReplies == {"path_salary_slip", "path_co_borrower", "path_split_loan"}

\* The turn with outcome r executed a path selection.
PathExecuted(r) == r.reply # <<>> /\ r.reply[1].kind \in PathReplies

\* C31: in Needs Analysis a path selection is executed only when the
\* Tier-2 response has been given in the current negotiation (attempt
\* counter at least 2); after only a Tier-1 response a path-selection
\* phrase is not executed as a path.
C31_PathOnlyAfterTier2 ==
    (InNeedsAnalysis /\ session.negotiation_attempts < 2) =>
        \A u \in Sendable :
            (IsSome(detect_path_selection(u)) /\ ~detect_handoff_trigger(u)) =>
                ~PathExecuted(Answer(u))

InOptions == session.started /\ session.conversation_phase = 5 /\ IsSome(session.user_data)

\* The turn with outcome r left the ladder alone: no negotiator response
\* and the attempt counter as before.
LadderUntouched(r) ==
    /\ IsNone(r.negotiated)
    /\ r.s.negotiation_attempts = session.negotiation_attempts

\* C32: in Options Presentation a message that is an option pick, or whose
\* detected intent is AMOUNT or none, does not invoke the ladder and leaves
\* the attempt counter unchanged.
C32_OnlyRateOrEmiIntercepted ==
    InOptions =>
        \A u \in Sendable :
            (/\ ~detect_handoff_trigger(u)
             /\ \/ u.option_pick
                \/ detect_negotiation_intent(u) \notin {Some("RATE"), Some("EMI")}) =>
                LadderUntouched(Answer(u))

\* Verification is open and an amount was captured in an earlier phase.
AmountCaptured ==
    /\ session.started /\ session.conversation_phase = 3
    /\ IsNone(session.user_data)
    /\ IsSome(session.requested_amount)

\* What Needs Analysis produces for the captured amount on the session r.s
\* had when the profile was taken in.
NeedsAnalysisOnCaptured(r) ==
    phase4_validate([session EXCEPT !.user_data = r.s.user_data,
                                    !.user_name = r.s.user_name,
                                    !.pending_identity_mismatch = FALSE,
                                    !.conversation_phase = 4],
                    Val(session.requested_amount), <<>>)

AmountQuestions == {"profile_ask_amount", "ask_amount_again"}

OptionsOpen ==
    /\ InOptions
    /\ ~session.awaiting_slip_confirm
    /\ ~(session.awaiting_salary_slip /\ ~session.salary_slip_verified)

\* A custom tenure request: months, no option number, and nothing the
\* hand-off detection or the negotiator takes.
TenureRequest(u) ==
    /\ u.tenure > 0 /\ u.option = 0
    /\ ~detect_handoff_trigger(u)
    /\ ~phase5_negotiator_fires(session, u)

\* The EMI of the loan amount at a tenure, and whether the DTI with the
\* existing EMIs is then safe.
TenureEmi(tenure) ==
    calculate_emi(session.loan_amount, tenure, Val(session.interest_rate))

TenureSafe(tenure) ==
    calculate_dti_with_existing_loans(Val(session.user_data).salary,
                                      TenureEmi(tenure),
                                      Val(session.user_data).current_emis).safe

TenureCounters == {Msg("tenure_counter_offer"), Msg("tenure_unaffordable")}

PlanWithinDti(s) ==
    /\ IsSome(s.approved_emi)
    /\ 2 * (Val(s.approved_emi) + Val(s.user_data).current_emis)
           < Val(s.user_data).salary

\* C35: in Confirmation and in Documentation the stored plan has a total
\* DTI, existing EMIs included, below 50% of the salary of the profile.
C35_ConfirmedPlanWithinDti ==
    (session.started /\ session.conversation_phase \in {6, 7}) =>
        PlanWithinDti(session)

\* The number of Needs Analysis sub-state flags that are set.
SubStatesSet(s) ==
    Cardinality({f \in {"awaiting_renegotiation",
                        "awaiting_renegotiation_confirmed",
                        "negotiation_active"} : s[f]})

\* C36: at most one of awaiting_renegotiation,
\* awaiting_renegotiation_confirmed and negotiation_active is true.
C36_SubStatesExclusive == session.started => SubStatesSet(session) <= 1

\* The moves of the phase a turn may make: stay, one phase forward, from
\* Confirmation back to the options, from the opening to Verification when
\* the purpose is already known, and from Verification to the options when
\* the amount is already known.
PhaseMoveAllowed(s, t) ==
    LET p == s.conversation_phase
        q == t.conversation_phase
    IN  \/ q = p
        \/ q = p + 1
        \/ p = 6 /\ q = 5
        \/ p = 1 /\ q = 3 /\ IsSome(t.loan_purpose)
        \/ p = 3 /\ q = 5 /\ IsSome(s.requested_amount)

\* C37: no message and no upload moves the phase otherwise than by these
\* moves; in particular none returns the session from Options Presentation
\* or later to Needs Analysis or Verification.
C37_PhaseOrder ==
    session.started =>
        /\ \A u \in Sendable : PhaseMoveAllowed(session, Answer(u).s)
        /\ UploadOpen =>
               \A file \in SlipFiles :
                   upload_salary_slip(session, file).s.conversation_phase
                       = session.conversation_phase

\* The one back-edge: a reply in Confirmation returns to the options.
C37_Witness ==
    /\ session.started /\ session.conversation_phase = 6
    /\ \E u \in Sendable : Answer(u).s.conversation_phase = 5
    /\ \E u \in Sendable : Answer(u).s.conversation_phase = 7

\* A negotiation is active in Needs Analysis and no amount was requested.
ActiveWithoutAmount ==
    /\ InNeedsAnalysis
    /\ session.negotiation_active
    /\ IsNone(session.requested_amount)

\* C38: in Needs Analysis with the negotiation active and no requested
\* amount, a path-selection message is not executed as a path, does not
\* fault, and does not move the session to Options Presentation.
C38_PathNeedsAmount ==
    ActiveWithoutAmount =>
        \A u \in Sendable :
            (IsSome(detect_path_selection(u)) /\ ~detect_handoff_trigger(u)) =>
                LET r == Answer(u)
                IN  /\ ~r.fault
                    /\ ~PathExecuted(r)
                    /\ r.s.conversation_phase = 4

\* C39: in a session the negotiator gives at most three tiered responses;
\* no interleaving of pushbacks with path selections or renegotiation
\* amounts obtains a fourth one.
C39_AtMostThreeTiers == tiers <= 3

\* C40: every message a user can send is answered: process_ai_response
\* ends without an exception and has added at least one assistant message.
C40_EveryTurnAnswered ==
    session.started =>
        \A u \in Sendable :
            /\ ~Answer(u).fault
            /\ Answer(u).reply # <<>>



====
